---- MODULE Spec2Model ----
(***************************************************************************)
(* AutoNotion: the daily planner (autonotion/notion_registry_daily_plan.py)*)
(* and the service around it (shared/notion_service.py), as a state        *)
(* machine over a remote Notion store.                                     *)
(*                                                                         *)
(* A Notion page is a record [id, properties]; properties is a function    *)
(* from property names to property objects shaped as the API returns them. *)
(* Python dicts are functions, Python lists are sequences; {} and [] are   *)
(* both <<>>.  Task names are strings, clock strings ("09:00") are         *)
(* sequences of one-character strings so that parsing is computed.         *)
(***************************************************************************)
EXTENDS Integers, Sequences, FiniteSets, TLC

----------------------------------------------------------------------------
(* Bounds of the model *)

\* number of template records the tasks database holds at most
MaxTemplates == 2
\* number of records the registry holds at most before any run
MaxRegistry == 2
\* the same two bounds for the stores two overlapping runs work on
MaxConcurrentTemplates == 1
MaxConcurrentRegistry == 1
\* SpecMidnight: midnights the host clock passes, and the sizes of its stores
MaxMidnights == 1
MaxMidnightTemplates == 1
MaxMidnightRegistry == 1
\* SpecEvaluator: periodicities one template carries
MaxPeriodicities == 2
MaxAlertTemplates == 2
MaxAlertRegistry == 1
\* SpecPhases: records in its tasks database and in its registry
MaxPhaseTemplates == 1
MaxPhaseRegistry == 2
\* SpecCarry: records in its tasks database and in its registry
MaxCarryTemplates == 1
MaxCarryRegistry == 2

----------------------------------------------------------------------------
(* Python values *)

\* None where a str is expected (a task name)
None == "<None>"
\* None where a clock string is expected
NoneChars == <<"<None>">>
\* None where a dict is expected (a date object, a datetime)
Null == [null |-> TRUE]

\* dict.get(key, default)
Get(d, k, dflt) == IF k \in DOMAIN d THEN d[k] ELSE dflt

\* truthiness of a str
Truthy(s) == s # None /\ s # ""
\* truthiness of a clock string
TruthyChars(s) == s # NoneChars /\ s # <<>>

Range(s) == {s[i] : i \in DOMAIN s}

----------------------------------------------------------------------------
(* datetime.date: [year, month, day] *)

IsLeap(y) == (y % 4 = 0 /\ y % 100 # 0) \/ y % 400 = 0

DaysInMonth(y, m) ==
    IF m = 2 THEN (IF IsLeap(y) THEN 29 ELSE 28)
    ELSE IF m \in {4, 6, 9, 11} THEN 30 ELSE 31

RECURSIVE DaysBeforeMonth(_, _)
DaysBeforeMonth(y, m) ==
    IF m = 1 THEN 0 ELSE DaysBeforeMonth(y, m - 1) + DaysInMonth(y, m - 1)

\* date.toordinal(): 0001-01-01 is day 1
ToOrdinal(d) ==
    LET y == d.year - 1
    IN  y * 365 + y \div 4 - y \div 100 + y \div 400
        + DaysBeforeMonth(d.year, d.month) + d.day

\* date.weekday(): Monday = 0 .. Sunday = 6
Weekday0(d) == (ToOrdinal(d) + 6) % 7

\* date.isoweekday(): Monday = 1 .. Sunday = 7
IsoWeekday(d) == ((ToOrdinal(d) + 6) % 7) + 1

\* date + timedelta(days=1)
NextDay(d) ==
    IF d.day < DaysInMonth(d.year, d.month)
    THEN [d EXCEPT !.day = d.day + 1]
    ELSE IF d.month < 12
         THEN [year |-> d.year, month |-> d.month + 1, day |-> 1]
         ELSE [year |-> d.year + 1, month |-> 1, day |-> 1]

\* date - timedelta(days=1)
PrevDay(d) ==
    IF d.day > 1
    THEN [d EXCEPT !.day = d.day - 1]
    ELSE IF d.month > 1
         THEN [year |-> d.year, month |-> d.month - 1,
               day |-> DaysInMonth(d.year, d.month - 1)]
         ELSE [year |-> d.year - 1, month |-> 12, day |-> 31]

----------------------------------------------------------------------------
(* ISO date-time values.  A value of a Notion date is                      *)
(*   [date, hasTime, hh, mm, ss, aware, off]                               *)
(* date-only values have hasTime = FALSE; aware values carry their UTC     *)
(* offset in minutes.                                                      *)

\* the planner's timezone (NOTION_TIMEZONE) as minutes east of UTC
PlannerOffset == 120

DateOnly(d) ==
    [date |-> d, hasTime |-> FALSE, hh |-> 0, mm |-> 0, ss |-> 0,
     aware |-> FALSE, off |-> 0]

\* datetime.combine(d, time(hh, mm, ss), tzinfo=off).isoformat()
At(d, hh, mm, ss, off) ==
    [date |-> d, hasTime |-> TRUE, hh |-> hh, mm |-> mm, ss |-> ss,
     aware |-> TRUE, off |-> off]

\* the point in time of a value, in minutes (seconds dropped); a value with
\* no offset is read as UTC
Instant(dt) ==
    ToOrdinal(dt.date) * 1440 + dt.hh * 60 + dt.mm
    - (IF dt.aware THEN dt.off ELSE 0)

\* dt.astimezone(tz).time() of an aware value, as [hh, mm, ss]
LocalTime(dt, off) ==
    LET m == (dt.hh * 60 + dt.mm - dt.off + off) % 1440
    IN  [hh |-> m \div 60, mm |-> m % 60, ss |-> dt.ss]

Digits == <<"0", "1", "2", "3", "4", "5", "6", "7", "8", "9">>

Pad2(n) == <<Digits[(n \div 10) + 1], Digits[(n % 10) + 1]>>

\* time.isoformat(timespec="minutes"): "HH:MM"
IsoMinutes(t) == Pad2(t.hh) \o <<":">> \o Pad2(t.mm)

DigitValue(c) == CHOOSE i \in 0..9 : Digits[i + 1] = c

IsDigits2(s, i) == s[i] \in Range(Digits) /\ s[i + 1] \in Range(Digits)

Num2(s, i) == DigitValue(s[i]) * 10 + DigitValue(s[i + 1])

\* time.fromisoformat(s) for the forms HH, HH:MM and HH:MM:SS;
\* [ok |-> FALSE] stands for ValueError
ValueError == [ok |-> FALSE, hh |-> 0, mm |-> 0, ss |-> 0]

time_fromisoformat(s) ==
    LET n  == Len(s)
        wf == /\ n \in {2, 5, 8}
              /\ IsDigits2(s, 1)
              /\ n >= 5 => (s[3] = ":" /\ IsDigits2(s, 4))
              /\ n >= 8 => (s[6] = ":" /\ IsDigits2(s, 7))
    IN  IF ~wf THEN ValueError
        ELSE LET hh == Num2(s, 1)
                 mm == IF n >= 5 THEN Num2(s, 4) ELSE 0
                 ss == IF n >= 8 THEN Num2(s, 7) ELSE 0
             IN  IF hh <= 23 /\ mm <= 59 /\ ss <= 59
                 THEN [ok |-> TRUE, hh |-> hh, mm |-> mm, ss |-> ss]
                 ELSE ValueError

----------------------------------------------------------------------------
(* Property objects as the Notion API returns them *)

RichItem(s) == [type |-> "text", text |-> [content |-> s], plain_text |-> s]

TitleProp(name) ==
    [type |-> "title", title |-> IF name = "" THEN <<>> ELSE <<RichItem(name)>>]

RichTextProp(s) ==
    [type |-> "rich_text", rich_text |-> IF s = <<>> THEN <<>> ELSE <<RichItem(s)>>]

SelectProp(name) ==
    [type |-> "select", select |-> IF name = None THEN Null ELSE [name |-> name]]

StatusProp(name) == [type |-> "status", status |-> [name |-> name]]

MultiSelectProp(names) ==
    [type |-> "multi_select",
     multi_select |-> [i \in DOMAIN names |-> [name |-> names[i]]]]

\* value: Null or a date object [start, end, time_zone]
DateProp(value) == [type |-> "date", date |-> value]

DateValue(start, end) == [start |-> start, end |-> end, time_zone |-> Null]

RelationProp(ids) ==
    [type |-> "relation", relation |-> [i \in DOMAIN ids |-> [id |-> ids[i]]]]

FormulaProp(s) == [type |-> "formula", formula |-> [string |-> s]]

\* the name a phase reads off a record:
\*   task_title = props.get("Nombre", {}).get("title", [{}])
\*   task_name = task_title[0].get("plain_text") if task_title else None
TaskName(props) ==
    LET task_title == Get(Get(props, "Nombre", <<>>), "title", << <<>> >>)
    IN  IF task_title # <<>> THEN Get(task_title[1], "plain_text", None) ELSE None

\*   start_prop = props.get(key, {}).get("rich_text", [])
\*   start_time_str = start_prop[0].get("plain_text") if start_prop else None
ClockString(props, key) ==
    LET prop == Get(Get(props, key, <<>>), "rich_text", <<>>)
    IN  IF prop # <<>> THEN Get(prop[1], "plain_text", NoneChars) ELSE NoneChars

----------------------------------------------------------------------------
(* NotionDailyPlanner: the functions without I/O *)

\* a fallback at the start of the day
StartOfDay(today) == [start |-> At(today, 0, 0, 0, PlannerOffset)]

Noon(today) == [start |-> At(today, 12, 0, 0, PlannerOffset)]

\* a planned time that keeps the start it parsed when the end does not parse
build_planned_datetime_keeps_start(today, start_time_str, end_time_str) ==
    IF TruthyChars(start_time_str)
    THEN LET start_time == time_fromisoformat(start_time_str)
         IN  IF ~start_time.ok THEN Noon(today)
             ELSE LET start == At(today, start_time.hh, start_time.mm,
                                  start_time.ss, PlannerOffset)
                  IN  IF TruthyChars(end_time_str)
                      THEN LET end_time == time_fromisoformat(end_time_str)
                           IN  IF ~end_time.ok THEN [start |-> start]
                               ELSE [start |-> start,
                                     end |-> At(today, end_time.hh, end_time.mm,
                                                end_time.ss, PlannerOffset)]
                      ELSE [start |-> start]
    ELSE Noon(today)

build_planned_datetime(today, start_time_str, end_time_str) ==
    IF TruthyChars(start_time_str)
    THEN LET start_time == time_fromisoformat(start_time_str)
         IN  IF ~start_time.ok THEN Noon(today)
             ELSE LET start == At(today, start_time.hh, start_time.mm,
                                  start_time.ss, PlannerOffset)
                  IN  IF TruthyChars(end_time_str)
                      THEN LET end_time == time_fromisoformat(end_time_str)
                           IN  IF ~end_time.ok THEN Noon(today)
                               ELSE [start |-> start,
                                     end |-> At(today, end_time.hh, end_time.mm,
                                                end_time.ss, PlannerOffset)]
                      ELSE [start |-> start]
    ELSE Noon(today)

read_only_types ==
    {"formula", "rollup", "created_by", "created_time",
     "last_edited_by", "last_edited_time"}

TextItems(items) == [i \in DOMAIN items |-> [text |-> [content |-> items[i].text.content]]]

\* whether copy_writable_properties emits the property
Writable(prop) ==
    LET t == Get(prop, "type", None)
    IN  /\ t \notin read_only_types
        /\ \/ t = "title" /\ Get(prop, "title", <<>>) # <<>>
           \/ t = "rich_text" /\ Get(prop, "rich_text", <<>>) # <<>>
           \/ t = "number" /\ "number" \in DOMAIN prop
           \/ t = "select" /\ Get(prop, "select", Null) # Null
           \/ t = "multi_select" /\ Get(prop, "multi_select", <<>>) # <<>>
           \/ t = "date" /\ Get(prop, "date", Null) # Null
           \/ t = "checkbox"
           \/ t = "url" /\ Truthy(Get(prop, "url", None))
           \/ t = "email" /\ Truthy(Get(prop, "email", None))

\* the sanitized value copy_writable_properties emits for a writable property
Sanitize(prop) ==
    CASE prop.type = "title" -> [title |-> TextItems(prop.title)]
      [] prop.type = "rich_text" -> [rich_text |-> TextItems(prop.rich_text)]
      [] prop.type = "number" -> [number |-> prop.number]
      [] prop.type = "select" -> [select |-> [name |-> prop.select.name]]
      [] prop.type = "multi_select" ->
            [multi_select |-> [i \in DOMAIN prop.multi_select |->
                                  [name |-> prop.multi_select[i].name]]]
      [] prop.type = "date" ->
            [date |-> IF Get(prop.date, "end", Null) # Null
                      THEN [start |-> prop.date.start, end |-> prop.date.end]
                      ELSE [start |-> prop.date.start]]
      [] prop.type = "checkbox" -> [checkbox |-> prop.checkbox]
      [] prop.type = "url" -> [url |-> prop.url]
      [] prop.type = "email" -> [email |-> prop.email]

\* a copy that carries over every property of the target schema as it was read
copy_raw_properties(source_properties, target_properties) ==
    LET keys == {k \in DOMAIN source_properties : k \in target_properties}
    IN  [k \in keys |-> source_properties[k]]

\* a copy that does not look at the target schema
copy_writable_properties_any_target(source_properties, target_properties) ==
    LET keys == {k \in DOMAIN source_properties : Writable(source_properties[k])}
    IN  [k \in keys |-> Sanitize(source_properties[k])]

copy_writable_properties(source_properties, target_properties) ==
    LET keys == {k \in DOMAIN source_properties :
                    k \in target_properties /\ Writable(source_properties[k])}
    IN  [k \in keys |-> Sanitize(source_properties[k])]

\* d[k] = v of a dict
Put(d, k, v) == [x \in DOMAIN d \cup {k} |-> IF x = k THEN v ELSE d[x]]

\* d.pop(k, None)
Pop(d, k) == [x \in DOMAIN d \ {k} |-> d[x]]

\* a builder that sets the back-relation whatever the target schema holds
build_new_page_payload_relation(registry_db_properties, source_task, task_name, planned_date) ==
    LET source_properties == Get(source_task, "properties", <<>>)
        copied == copy_writable_properties(source_properties, registry_db_properties)
        named  == Put(copied, "Nombre", [title |-> <<[text |-> [content |-> task_name]]>>])
        related == Put(named, "Tarea", [relation |-> <<[id |-> source_task.id]>>])
    IN  [parent |-> [database_id |-> "registry"],
         properties |-> Pop(Put(related, "Horario Planificado", [date |-> planned_date]),
                            "Horario")]

\* a builder that keeps a title it copied from the source
build_new_page_payload_keep_title(registry_db_properties, source_task, task_name, planned_date) ==
    LET source_properties == Get(source_task, "properties", <<>>)
        copied == copy_writable_properties(source_properties, registry_db_properties)
        named  == IF "Nombre" \in DOMAIN copied THEN copied
                  ELSE Put(copied, "Nombre",
                           [title |-> <<[text |-> [content |-> task_name]]>>])
        related ==
            IF "Tarea" \in registry_db_properties
            THEN IF /\ "Tarea" \in DOMAIN source_properties
                    /\ Get(source_properties["Tarea"], "relation", <<>>) # <<>>
                 THEN Put(named, "Tarea",
                          [relation |-> source_properties["Tarea"].relation])
                 ELSE Put(named, "Tarea", [relation |-> <<[id |-> source_task.id]>>])
            ELSE named
        planned ==
            IF planned_date # <<>>
            THEN Put(related, "Horario Planificado", [date |-> planned_date])
            ELSE related
    IN  [parent |-> [database_id |-> "registry"],
         properties |-> Pop(planned, "Horario")]

\* a builder that leaves a copied Horario in the payload
build_new_page_payload_keep_horario(registry_db_properties, source_task, task_name, planned_date) ==
    LET source_properties == Get(source_task, "properties", <<>>)
        copied == copy_writable_properties(source_properties, registry_db_properties)
        named  == Put(copied, "Nombre", [title |-> <<[text |-> [content |-> task_name]]>>])
        related ==
            IF "Tarea" \in registry_db_properties
            THEN IF /\ "Tarea" \in DOMAIN source_properties
                    /\ Get(source_properties["Tarea"], "relation", <<>>) # <<>>
                 THEN Put(named, "Tarea",
                          [relation |-> source_properties["Tarea"].relation])
                 ELSE Put(named, "Tarea", [relation |-> <<[id |-> source_task.id]>>])
            ELSE named
        planned ==
            IF planned_date # <<>>
            THEN Put(related, "Horario Planificado", [date |-> planned_date])
            ELSE related
    IN  [parent |-> [database_id |-> "registry"],
         properties |-> planned]

\* a builder whose page goes under the tasks database
build_new_page_payload_in_tasks_db(registry_db_properties, source_task, task_name, planned_date) ==
    LET source_properties == Get(source_task, "properties", <<>>)
        copied == copy_writable_properties(source_properties, registry_db_properties)
        named  == Put(copied, "Nombre", [title |-> <<[text |-> [content |-> task_name]]>>])
        related ==
            IF "Tarea" \in registry_db_properties
            THEN IF /\ "Tarea" \in DOMAIN source_properties
                    /\ Get(source_properties["Tarea"], "relation", <<>>) # <<>>
                 THEN Put(named, "Tarea",
                          [relation |-> source_properties["Tarea"].relation])
                 ELSE Put(named, "Tarea", [relation |-> <<[id |-> source_task.id]>>])
            ELSE named
        planned ==
            IF planned_date # <<>>
            THEN Put(related, "Horario Planificado", [date |-> planned_date])
            ELSE related
    IN  [parent |-> [database_id |-> "tasks"],
         properties |-> Pop(planned, "Horario")]

\* a builder that keeps a planned time it copied from the source
build_new_page_payload_keep_planned(registry_db_properties, source_task, task_name, planned_date) ==
    LET source_properties == Get(source_task, "properties", <<>>)
        copied == copy_writable_properties(source_properties, registry_db_properties)
        named  == Put(copied, "Nombre", [title |-> <<[text |-> [content |-> task_name]]>>])
        related ==
            IF "Tarea" \in registry_db_properties
            THEN IF /\ "Tarea" \in DOMAIN source_properties
                    /\ Get(source_properties["Tarea"], "relation", <<>>) # <<>>
                 THEN Put(named, "Tarea",
                          [relation |-> source_properties["Tarea"].relation])
                 ELSE Put(named, "Tarea", [relation |-> <<[id |-> source_task.id]>>])
            ELSE named
        planned ==
            IF planned_date # <<>> /\ "Horario Planificado" \notin DOMAIN related
            THEN Put(related, "Horario Planificado", [date |-> planned_date])
            ELSE related
    IN  [parent |-> [database_id |-> "registry"],
         properties |-> Pop(planned, "Horario")]

build_new_page_payload(registry_db_properties, source_task, task_name, planned_date) ==
    LET source_properties == Get(source_task, "properties", <<>>)
        copied == copy_writable_properties(source_properties, registry_db_properties)
        named  == Put(copied, "Nombre", [title |-> <<[text |-> [content |-> task_name]]>>])
        related ==
            IF "Tarea" \in registry_db_properties
            THEN IF /\ "Tarea" \in DOMAIN source_properties
                    /\ Get(source_properties["Tarea"], "relation", <<>>) # <<>>
                 THEN Put(named, "Tarea",
                          [relation |-> source_properties["Tarea"].relation])
                 ELSE Put(named, "Tarea", [relation |-> <<[id |-> source_task.id]>>])
            ELSE named
        planned ==
            IF planned_date # <<>>
            THEN Put(related, "Horario Planificado", [date |-> planned_date])
            ELSE related
    IN  [parent |-> [database_id |-> "registry"],
         properties |-> Pop(planned, "Horario")]

get_multi_select_values(prop) ==
    IF prop = <<>> \/ "multi_select" \notin DOMAIN prop
    THEN <<>>
    ELSE [i \in DOMAIN prop.multi_select |-> prop.multi_select[i].name]

\* a week of the month that counts the day itself into the weeks passed
get_week_of_month_late(date) == date.day \div 7 + 1

get_week_of_month(date) == (date.day - 1) \div 7 + 1

\* a map that numbers the weeks from zero
week_map_from_zero == [n \in {"1ª", "2ª", "3ª", "4ª"} |->
                CASE n = "1ª" -> 0 [] n = "2ª" -> 1 [] n = "3ª" -> 2 [] n = "4ª" -> 3]

week_map == [n \in {"1ª", "2ª", "3ª", "4ª"} |->
                CASE n = "1ª" -> 1 [] n = "2ª" -> 2 [] n = "3ª" -> 3 [] n = "4ª" -> 4]

\* a loop body that takes the last eight days of the month for its last week
PeriodicityMatchesLastEight(periodicity, task_props, today) ==
    LET days_of_week   == Range(get_multi_select_values(Get(task_props, "Día de la semana", <<>>)))
        days_of_month  == Range(get_multi_select_values(Get(task_props, "Día del mes", <<>>)))
        weeks_of_month == Range(get_multi_select_values(Get(task_props, "Semana del mes", <<>>)))
        months         == Range(get_multi_select_values(Get(task_props, "Mes", <<>>)))
        weekday        == ToString(IsoWeekday(today))
        last_day       == DaysInMonth(today.year, today.month)
    IN  \/ periodicity = "Diaria"
        \/ periodicity = "Semanal" /\ weekday \in days_of_week
        \/ /\ periodicity = "Mensual"
           /\ \/ ToString(today.day) \in days_of_month
              \/ /\ weeks_of_month # {} /\ days_of_week # {}
                 /\ \/ /\ "Última" \in weeks_of_month
                       /\ today.day >= last_day - 7
                       /\ weekday \in days_of_week
                    \/ \E week_name \in DOMAIN week_map :
                          /\ week_name \in weeks_of_month
                          /\ get_week_of_month(today) = week_map[week_name]
                          /\ weekday \in days_of_week
        \/ /\ periodicity = "Anual"
           /\ ToString(today.month) \in months
           /\ ToString(today.day) \in days_of_month

\* one pass of the loop body of is_task_scheduled_for_today: TRUE when the
\* body returns True for this periodicity
PeriodicityMatches(periodicity, task_props, today) ==
    LET days_of_week   == Range(get_multi_select_values(Get(task_props, "Día de la semana", <<>>)))
        days_of_month  == Range(get_multi_select_values(Get(task_props, "Día del mes", <<>>)))
        weeks_of_month == Range(get_multi_select_values(Get(task_props, "Semana del mes", <<>>)))
        months         == Range(get_multi_select_values(Get(task_props, "Mes", <<>>)))
        weekday        == ToString(IsoWeekday(today))
        last_day       == DaysInMonth(today.year, today.month)
    IN  \/ periodicity = "Diaria"
        \/ periodicity = "Semanal" /\ weekday \in days_of_week
        \/ /\ periodicity = "Mensual"
           /\ \/ ToString(today.day) \in days_of_month
              \/ /\ weeks_of_month # {} /\ days_of_week # {}
                 /\ \/ /\ "Última" \in weeks_of_month
                       /\ today.day > last_day - 7
                       /\ weekday \in days_of_week
                    \/ \E week_name \in DOMAIN week_map :
                          /\ week_name \in weeks_of_month
                          /\ get_week_of_month(today) = week_map[week_name]
                          /\ weekday \in days_of_week
        \/ /\ periodicity = "Anual"
           /\ ToString(today.month) \in months
           /\ ToString(today.day) \in days_of_month

\* a loop that returns what its first pass finds
ScanFirstOnly(periodicities, i, task_props, today) ==
    i <= Len(periodicities) /\ PeriodicityMatches(periodicities[i], task_props, today)

\* a loop that returns True only when every pass matches
ScanAllMatch(periodicities, i, task_props, today) ==
    \A j \in i..Len(periodicities) :
        PeriodicityMatches(periodicities[j], task_props, today)

RECURSIVE ScanPeriodicities(_, _, _, _)
ScanPeriodicities(periodicities, i, task_props, today) ==
    IF i > Len(periodicities) THEN FALSE
    ELSE IF PeriodicityMatches(periodicities[i], task_props, today) THEN TRUE
    ELSE ScanPeriodicities(periodicities, i + 1, task_props, today)

\* an evaluator that takes a template without periodicities for a daily one
IsScheduledDailyByDefault(task_props, today) ==
    LET periodicities == get_multi_select_values(Get(task_props, "Periodicidad", <<>>))
    IN  IF periodicities = <<>> THEN TRUE
        ELSE ScanPeriodicities(periodicities, 1, task_props, today)

\* an evaluator that reads every month as selected
IsScheduledAnyMonth(task_props, today) ==
    LET periodicities == get_multi_select_values(Get(task_props, "Periodicidad", <<>>))
        every_month == Put(task_props, "Mes",
                           MultiSelectProp([i \in 1..12 |-> ToString(i)]))
    IN  IF periodicities = <<>> THEN FALSE
        ELSE ScanPeriodicities(periodicities, 1, every_month, today)

is_task_scheduled_for_today(task_props, today) ==
    LET periodicities == get_multi_select_values(Get(task_props, "Periodicidad", <<>>))
    IN  IF periodicities = <<>> THEN FALSE
        ELSE ScanPeriodicities(periodicities, 1, task_props, today)

----------------------------------------------------------------------------
(* The remote store: the two Notion databases behind the HTTP calls *)

\* POST /v1/databases/{id}/query: does the page match the filter object
DateStart(page, name) ==
    LET value == Get(Get(page.properties, name, <<>>), "date", Null)
    IN  IF value = Null THEN Null ELSE value.start

DateMatches(page, name, cond) ==
    LET start == DateStart(page, name)
    IN  /\ start # Null
        /\ "on_or_after" \in DOMAIN cond => Instant(start) >= Instant(cond.on_or_after)
        /\ "before" \in DOMAIN cond => Instant(start) < Instant(cond.before)
        /\ "on_or_before" \in DOMAIN cond =>
              IF cond.on_or_before.hasTime
              THEN Instant(start) <= Instant(cond.on_or_before)
              ELSE ToOrdinal(start.date) <= ToOrdinal(cond.on_or_before.date)

ChoiceName(page, name, kind) ==
    LET value == Get(Get(page.properties, name, <<>>), kind, Null)
    IN  IF value = Null THEN None ELSE value.name

ChoiceMatches(page, name, kind, cond) ==
    /\ "equals" \in DOMAIN cond => ChoiceName(page, name, kind) = cond.equals
    /\ "does_not_equal" \in DOMAIN cond => ChoiceName(page, name, kind) # cond.does_not_equal

LeafMatches(page, f) ==
    /\ "date" \in DOMAIN f => DateMatches(page, f.property, f.date)
    /\ "status" \in DOMAIN f => ChoiceMatches(page, f.property, "status", f.status)
    /\ "select" \in DOMAIN f => ChoiceMatches(page, f.property, "select", f.select)

\* compound filters nest at most two levels deep
AndMatches(page, f) ==
    IF "and" \in DOMAIN f
    THEN \A i \in DOMAIN f["and"] : LeafMatches(page, f["and"][i])
    ELSE LeafMatches(page, f)

Matches(page, f) ==
    IF "or" \in DOMAIN f
    THEN \E i \in DOMAIN f["or"] : AndMatches(page, f["or"][i])
    ELSE AndMatches(page, f)

RECURSIVE FilterPages(_, _)
FilterPages(pages, f) ==
    IF pages = <<>> THEN <<>>
    ELSE IF Matches(Head(pages), f)
         THEN <<Head(pages)>> \o FilterPages(Tail(pages), f)
         ELSE FilterPages(Tail(pages), f)

\* the "results" list of a query response
QueryResults(pages, query_filter) == FilterPages(pages, query_filter.filter)

\* the properties of the registry database, with the value a new page gets
\* for a property its payload leaves out
RegistryDefaults ==
    [x \in {"Nombre", "Estado", "Horario", "Horario Planificado", "Tarea",
            "Priority", "Hora Inicio"} |->
        CASE x = "Nombre" -> TitleProp("")
          [] x = "Estado" -> StatusProp("Sin empezar")
          [] x = "Horario" -> DateProp(Null)
          [] x = "Horario Planificado" -> DateProp(Null)
          [] x = "Tarea" -> RelationProp(<<>>)
          [] x = "Priority" -> SelectProp(None)
          [] x = "Hora Inicio" -> RichTextProp(<<>>)]

\* GET /v1/databases/{registry}: the keys of "properties"
RegistrySchema == DOMAIN RegistryDefaults

\* the property object the store returns for a value written by a payload
StoredValue(v) ==
    CASE "title" \in DOMAIN v ->
            [type |-> "title",
             title |-> [i \in DOMAIN v.title |-> RichItem(v.title[i].text.content)]]
      [] "rich_text" \in DOMAIN v ->
            [type |-> "rich_text",
             rich_text |-> [i \in DOMAIN v.rich_text |->
                               RichItem(v.rich_text[i].text.content)]]
      [] "select" \in DOMAIN v -> [type |-> "select", select |-> v.select]
      [] "relation" \in DOMAIN v -> [type |-> "relation", relation |-> v.relation]
      [] "date" \in DOMAIN v ->
            DateProp(DateValue(v.date.start, Get(v.date, "end", Null)))

\* POST /v1/pages: the page the registry holds after a successful create
StoredPage(id, payload) ==
    [id |-> id,
     properties |->
        [x \in RegistrySchema |->
            IF x \in DOMAIN payload.properties
            THEN StoredValue(payload.properties[x])
            ELSE RegistryDefaults[x]]]

----------------------------------------------------------------------------
(* NotionDailyPlanner: the queries it sends *)

range_filter(property_name, lo, hi) ==
    [and |-> <<[property |-> property_name, date |-> [on_or_after |-> lo]],
               [property |-> property_name, date |-> [before |-> hi]]>>]

\* a seeding filter that looks at the original schedule only
TodayFilterHorarioOnly(today_date) ==
    LET today_start    == At(today_date, 0, 0, 0, PlannerOffset)
        tomorrow_start == At(NextDay(today_date), 0, 0, 0, PlannerOffset)
    IN  [filter |-> [or |-> <<range_filter("Horario", today_start, tomorrow_start)>>]]

\* the filter of get_todays_scheduled_task_names
TodayFilter(today_date) ==
    LET today_start    == At(today_date, 0, 0, 0, PlannerOffset)
        tomorrow_start == At(NextDay(today_date), 0, 0, 0, PlannerOffset)
    IN  [filter |-> [or |-> <<range_filter("Horario", today_start, tomorrow_start),
                              range_filter("Horario Planificado", today_start,
                                           tomorrow_start)>>]]

\* a collection that reads the title under a key the registry does not have
TodaysNamesWrongKey(todays_tasks) ==
    {Get(Get(Get(todays_tasks[i].properties, "Name", <<>>), "title", << <<>> >>)[1],
         "plain_text", None) : i \in DOMAIN todays_tasks} \ {None, ""}

\* the names get_todays_scheduled_task_names collects from the response
TodaysNames(todays_tasks) ==
    {TaskName(todays_tasks[i].properties) : i \in DOMAIN todays_tasks} \ {None, ""}

UnfinishedGroup(property_name, lo, hi) ==
    [and |-> <<[property |-> "Estado", status |-> [does_not_equal |-> "Finalizada"]],
               [property |-> "Estado", status |-> [does_not_equal |-> "Cancelada"]],
               [property |-> property_name, date |-> [on_or_after |-> lo]],
               [property |-> property_name, date |-> [before |-> hi]]>>]

\* the filter of duplicate_unfinished_tasks_for_today
UnfinishedFilter(today) ==
    LET yesterday_start == At(PrevDay(today), 0, 0, 0, PlannerOffset)
        today_start     == At(today, 0, 0, 0, PlannerOffset)
    IN  [filter |-> [or |-> <<UnfinishedGroup("Horario", yesterday_start, today_start),
                              UnfinishedGroup("Horario Planificado", yesterday_start,
                                              today_start)>>]]

\* the filter of generate_periodic_tasks
PeriodicFilter ==
    [filter |-> [property |-> "Tipo", select |-> [equals |-> "Periódica"]]]

\* the filter of add_alerted_objective_tasks
AlertedFilter(today) ==
    [filter |->
        [and |-> <<[property |-> "Tipo", select |-> [does_not_equal |-> "Periódica"]],
                   [property |-> "Estado", status |-> [does_not_equal |-> "Completada"]],
                   [property |-> "Fecha de Alerta",
                    date |-> [on_or_before |-> DateOnly(today)]]>>]]

----------------------------------------------------------------------------
(* The stores the model starts from *)

\* the date the runs happen on (a Monday)
Today0 == [year |-> 2025, month |-> 10, day |-> 6]

Chars(h1, h2, m1, m2) == <<h1, h2, ":", m1, m2>>

\* a record of the tasks database
Template(id, name, tipo, estado, periodicidad, dias, inicio, fin, alerta) ==
    [id |-> id,
     properties |->
        [x \in {"Nombre", "Tipo", "Estado", "Periodicidad", "Día de la semana",
                "Hora Inicio", "Hora Fin", "Fecha de Alerta", "Priority",
                "Creada"} |->
            CASE x = "Nombre" -> TitleProp(name)
              [] x = "Tipo" -> SelectProp(tipo)
              [] x = "Estado" -> StatusProp(estado)
              [] x = "Periodicidad" -> MultiSelectProp(periodicidad)
              [] x = "Día de la semana" -> MultiSelectProp(dias)
              [] x = "Hora Inicio" -> RichTextProp(inicio)
              [] x = "Hora Fin" -> RichTextProp(fin)
              [] x = "Fecha de Alerta" -> DateProp(alerta)
              [] x = "Priority" -> SelectProp("High")
              [] x = "Creada" -> FormulaProp(id)]]

AlertOn(d) == DateValue(DateOnly(d), Null)

TemplateUniverse ==
    << Template("t1", "A", "Periódica", "En curso", <<"Diaria">>, <<>>,
                Chars("0", "9", "0", "0"), Chars("1", "0", "0", "0"), Null),
       Template("t2", "A", "Periódica", "En curso", <<"Semanal">>, <<"1">>,
                <<>>, <<>>, Null),
       Template("t3", "B", "Periódica", "En curso", <<"Semanal">>, <<"2">>,
                <<>>, <<>>, Null),
       Template("t4", "", "Periódica", "En curso", <<"Diaria">>, <<>>,
                <<>>, <<>>, Null),
       Template("t5", "A", "Puntual", "En curso", <<>>, <<>>,
                <<"9", "a", "m">>, <<>>, AlertOn(PrevDay(Today0))),
       Template("t6", "B", "Objetivo", "Pendiente", <<>>, <<>>,
                Chars("0", "8", "3", "0"), <<>>, AlertOn(Today0)) >>

\* templates with an alert date, with and without a name, a status and clocks
AlertUniverse ==
    << Template("a1", "A", "Puntual", "En curso", <<>>, <<>>,
                <<>>, <<>>, AlertOn(PrevDay(Today0))),
       Template("a2", "", "Objetivo", "En curso", <<>>, <<>>,
                <<>>, <<>>, AlertOn(Today0)),
       Template("a3", "C", "Objetivo", "Completada", <<>>, <<>>,
                <<>>, <<>>, AlertOn(Today0)),
       Template("a4", "C", "Objetivo", "En curso", <<>>, <<>>,
                <<>>, <<>>, AlertOn(NextDay(Today0))),
       Template("a5", "B", "Periódica", "En curso", <<"Diaria">>, <<>>,
                Chars("2", "5", "0", "0"), <<>>, AlertOn(Today0)),
       Template("a6", "D", "Puntual", "En curso", <<>>, <<>>,
                Chars("0", "9", "0", "0"), <<"9", "a", "m">>, AlertOn(Today0)),
       Template("a7", "C", "Puntual", "En curso", <<>>, <<>>,
                Chars("0", "9", "0", "0"), <<>>, Null),
       Template("a8", "", "Periódica", "En curso", <<"Diaria">>, <<>>,
                <<>>, <<>>, Null),
       Template("a9", "E", "Periódica", "En curso", <<"Diaria">>, <<>>,
                <<>>, Chars("1", "0", "0", "0"), Null) >>

\* a record of the registry
Entry(id, name, estado, horario, planificado, tarea) ==
    [id |-> id,
     properties |->
        [x \in RegistrySchema |->
            CASE x = "Nombre" -> TitleProp(name)
              [] x = "Estado" -> StatusProp(estado)
              [] x = "Horario" -> DateProp(horario)
              [] x = "Horario Planificado" -> DateProp(planificado)
              [] x = "Tarea" -> RelationProp(tarea)
              [] x = "Priority" -> SelectProp("Medium")
              [] x = "Hora Inicio" -> RichTextProp(<<>>)]]

RegistryUniverse ==
    << Entry("r1", "A", "En curso",
             DateValue(At(PrevDay(Today0), 7, 0, 0, 0),
                       At(PrevDay(Today0), 8, 30, 0, 0)),
             Null, <<"t1">>),
       Entry("r2", "B", "Sin empezar", Null,
             DateValue(At(PrevDay(Today0), 15, 0, 0, 0), Null), <<>>),
       Entry("r3", "B", "En curso", Null,
             DateValue(At(Today0, 8, 0, 0, 120), Null), <<"t6">>),
       Entry("r4", "", "En curso",
             DateValue(At(PrevDay(Today0), 9, 0, 0, 120), Null), Null, <<>>) >>

\* unfinished records of the registry with an original schedule, a planned
\* time, both or neither, with and without a time of day
CarryUniverse ==
    << Entry("c1", "A", "En curso",
             DateValue(At(PrevDay(Today0), 7, 0, 0, 0),
                       At(PrevDay(Today0), 8, 30, 0, 0)),
             DateValue(At(PrevDay(Today0), 15, 0, 0, PlannerOffset), Null), <<"t1">>),
       Entry("c2", "B", "Sin empezar", Null,
             DateValue(At(PrevDay(Today0), 15, 0, 0, 0), Null), <<>>),
       Entry("c3", "C", "En curso",
             DateValue(At(PrevDay(PrevDay(Today0)), 10, 0, 0, PlannerOffset), Null),
             DateValue(At(PrevDay(Today0), 16, 0, 0, PlannerOffset), Null), <<>>),
       Entry("c4", "D", "En curso",
             DateValue(DateOnly(PrevDay(Today0)), Null), Null, <<>>),
       Entry("c5", "E", "En curso", Null, Null, <<>>),
       Entry("c6", "F", "En curso", Null,
             DateValue(DateOnly(PrevDay(Today0)), Null), <<>>) >>

Min(S) == CHOOSE x \in S : \A y \in S : x <= y

\* the records of a universe at the indexes S, in the universe's order
RECURSIVE Pick(_, _)
Pick(universe, S) ==
    IF S = {} THEN <<>>
    ELSE <<universe[Min(S)]>> \o Pick(universe, S \ {Min(S)})

Stores(universe, max) ==
    {Pick(universe, S) : S \in {T \in SUBSET DOMAIN universe : Cardinality(T) <= max}}

----------------------------------------------------------------------------
(* State *)

VARIABLES
    clock,      \* datetime.date.today() of the host
    tasks_db,   \* the records of the tasks (template) database
    registry,   \* the records of the registry database
    planner,    \* per caller: the fields of its NotionDailyPlanner object
    frame,      \* per caller: where its call stands and the locals of the call
    creates,    \* history: the successful POST /v1/pages, in order
    completed,  \* history: the dates a run_daily_plan started and returned on
    hist,       \* history: per caller, what its current call has done
    call        \* a function without I/O called on its own: arguments and result

vars == <<clock, tasks_db, registry, planner, frame, creates, completed, hist, call>>

\* the two triggers of the function app, each with a planner of its own
Planners == {"manual", "scheduled"}

RETRY_ATTEMPTS == 3

EnvNames == {"NOTION_API_KEY", "NOTION_REGISTRY_DB_ID", "NOTION_TASKS_DB_ID"}

FullEnv == [n \in EnvNames |-> "set"]

\* os.environ.get of the three names: None (unset), "" or a value
Envs == [EnvNames -> {None, "", "set"}]

NoPlanner ==
    [constructed |-> FALSE, existing_tasks_names |-> <<>>,
     registry_db_properties |-> {}]

IdleFrame ==
    [pc |-> "idle", via |-> "direct", env |-> FullEnv, fn |-> "none",
     in_run |-> FALSE, run_today |-> Today0, today |-> Today0, items |-> <<>>,
     payload |-> <<>>, task_name |-> None, source |-> None, attempts |-> 0,
     outcome |-> "none", status_code |-> 0]

NoHist ==
    [born |-> 0, base |-> 0, seed_names |-> {}, seed_at |-> 0, seeded |-> FALSE,
     called |-> FALSE, terminal |-> FALSE, terminal_at |-> 0,
     after_done |-> FALSE, schema_ok |-> TRUE]

\* no function is called on its own
NoCall == [fn |-> "none"]

InitWith(templates, entries) ==
    /\ clock = Today0
    /\ call = NoCall
    /\ tasks_db \in Stores(TemplateUniverse, templates)
    /\ registry \in Stores(RegistryUniverse, entries)
    /\ planner = [p \in Planners |-> NoPlanner]
    /\ frame = [p \in Planners |-> IdleFrame]
    /\ creates = <<>>
    /\ completed = {}
    /\ hist = [p \in Planners |-> NoHist]

Init == InitWith(MaxTemplates, MaxRegistry)

----------------------------------------------------------------------------
(* The steps of a call *)

\* a stop condition that lets one attempt too many through
stop_after_attempt_late(attempt_number) == attempt_number > RETRY_ATTEMPTS

\* stop=stop_after_attempt(RETRY_ATTEMPTS): stop once this many attempts are made
stop_after_attempt(attempt_number) == attempt_number >= RETRY_ATTEMPTS

\* the periodic phase called before the carry-over phase
PhaseOrderPeriodicFirst == <<"periodic", "duplicate", "alerted">>

\* the three phases in the order run_daily_plan calls them
PhaseOrder == <<"duplicate", "periodic", "alerted">>

\* a cache check that never finds a name
InCacheNever(existing_tasks_names, today_str, task_name) == FALSE

\* today_str in self.existing_tasks_names and task_name in self.existing_tasks_names[today_str]
InCache(existing_tasks_names, today_str, task_name) ==
    /\ today_str \in DOMAIN existing_tasks_names
    /\ task_name \in existing_tasks_names[today_str]

\* a cache update that creates the date entry and forgets the name
CacheAddNoName(existing_tasks_names, today_str, task_name) ==
    Put(existing_tasks_names, today_str, Get(existing_tasks_names, today_str, {}))

\* self.existing_tasks_names.setdefault(today_str, set()).add(task_name)
CacheAdd(existing_tasks_names, today_str, task_name) ==
    Put(existing_tasks_names, today_str,
        Get(existing_tasks_names, today_str, {}) \cup {task_name})

\* get_db_properties: the keys of the schema, or the empty set when the GET fails
get_db_properties(ok) == IF ok THEN RegistrySchema ELSE {}

\* a check that takes an empty value for a set one
MissingEnvUnsetOnly(env) == \E n \in EnvNames : env[n] = None

\* not all([api_key, registry_db_id, tasks_db_id])
MissingEnv(env) == \E n \in EnvNames : ~Truthy(env[n])

\* a service that reports success whatever the planner did
StatusCodeAlwaysOk(via, outcome) == IF via # "service" THEN 0 ELSE 200

\* the status_code NotionService.run_daily_plan returns
StatusCode(via, outcome) ==
    IF via # "service" THEN 0
    ELSE IF outcome = "returned" THEN 200 ELSE 500

\* an entry that asks the registry for today's names whatever the cache holds
EnterPhaseAlwaysSeeds(f, fn, today, existing_tasks_names) ==
    [f EXCEPT !.fn = fn, !.today = today, !.items = <<>>, !.attempts = 0,
              !.pc = "seed"]

\* an entry that never asks the registry for today's names
EnterPhaseNeverSeeds(f, fn, today, existing_tasks_names) ==
    [f EXCEPT !.fn = fn, !.today = today, !.items = <<>>, !.attempts = 0,
              !.pc = "query"]

\* the locals of a phase function on entry: it reads the date, and asks the
\* registry for today's names when the cache has no entry for the date
EnterPhase(f, fn, today, existing_tasks_names) ==
    [f EXCEPT !.fn = fn, !.today = today, !.items = <<>>, !.attempts = 0,
              !.pc = IF today \in DOMAIN existing_tasks_names THEN "query" ELSE "seed"]

\* run_daily_plan up to its first remote call
BeginRun(f, today) ==
    [f EXCEPT !.pc = "seed", !.fn = "run", !.in_run = TRUE, !.run_today = today,
              !.today = today, !.items = <<>>, !.attempts = 0, !.outcome = "none",
              !.status_code = 0]

\* the call returns to its caller
Return(f) ==
    [f EXCEPT !.pc = "idle", !.items = <<>>, !.payload = <<>>, !.attempts = 0,
              !.task_name = None, !.source = None,
              !.outcome = "returned", !.status_code = StatusCode(f.via, "returned")]

\* a loop that logs the RetryError of a create and goes on with the next record
RaiseUnlessCreate(f) ==
    IF f.pc = "create"
    THEN [f EXCEPT !.pc = "loop", !.items = Tail(f.items), !.payload = <<>>,
                   !.attempts = 0]
    ELSE [f EXCEPT !.pc = "idle", !.items = <<>>, !.payload = <<>>, !.attempts = 0,
                   !.outcome = "raised", !.status_code = StatusCode(f.via, "raised")]

\* a RetryError leaves the remote call: nothing in the planner catches it
Raise(f) ==
    [f EXCEPT !.pc = "idle", !.items = <<>>, !.payload = <<>>, !.attempts = 0,
              !.task_name = None, !.source = None,
              !.outcome = "raised", !.status_code = StatusCode(f.via, "raised")]

\* the phase function returns: run_daily_plan goes on to the next phase
NextPhase(f, today, existing_tasks_names) ==
    LET i == CHOOSE j \in DOMAIN PhaseOrder : PhaseOrder[j] = f.fn
    IN  IF f.in_run /\ i < Len(PhaseOrder)
        THEN EnterPhase(f, PhaseOrder[i + 1], today, existing_tasks_names)
        ELSE Return(f)

BeginHist(h, in_run) ==
    [h EXCEPT !.base = Len(creates), !.seed_names = {}, !.seed_at = 0,
              !.seeded = FALSE, !.terminal = FALSE, !.terminal_at = 0,
              !.after_done = in_run /\ clock \in completed]

\* history of one HTTP attempt of a remote call
Attempt(h, f, ok) ==
    [h EXCEPT !.called = TRUE,
              !.terminal = h.terminal \/ (~ok /\ stop_after_attempt(f.attempts + 1)),
              !.terminal_at = IF ~ok /\ stop_after_attempt(f.attempts + 1)
                              THEN Len(creates) ELSE h.terminal_at]

\* a failed attempt of a call wrapped in @retry: wait and try again, or give up
Failed(f) ==
    IF stop_after_attempt(f.attempts + 1)
    THEN Raise(f)
    ELSE [f EXCEPT !.attempts = f.attempts + 1]

\* a reading that takes the clock of the source value as it is written
SourceClockAsWritten(dt) == IsoMinutes([hh |-> dt.hh, mm |-> dt.mm])

\* the "HH:MM" string the carry-over phase reads off a source date-time:
\* fromisoformat, astimezone when it carries an offset, time().isoformat("minutes")
SourceClock(dt) ==
    IF ~dt.aware
    THEN IsoMinutes([hh |-> dt.hh, mm |-> dt.mm])
    ELSE IsoMinutes(LocalTime(dt, PlannerOffset))

\* a skip that leaves the loop
SkipRest(f) == [f EXCEPT !.items = <<>>]

\* continue: on to the next record of the loop
Skip(f) == [f EXCEPT !.items = Tail(f.items)]

\* the loop body reaches self._create_page(new_page_payload)
ToCreate(f, task, task_name, payload) ==
    [f EXCEPT !.pc = "create", !.payload = payload, !.task_name = task_name,
              !.source = task.id, !.attempts = 0]

\* a pass that reads the planned time before the original schedule
DuplicateItemPlannedFirst(f, pl) ==
    LET task  == Head(f.items)
        props == Get(task, "properties", <<>>)
        task_name == TaskName(props)
        horario_date == Get(Get(props, "Horario", <<>>), "date", Null)
        planificado_date == Get(Get(props, "Horario Planificado", <<>>), "date", Null)
        source_date_obj ==
            IF planificado_date # Null THEN planificado_date
            ELSE IF horario_date # Null THEN horario_date ELSE Null
    IN  IF ~Truthy(task_name) \/ source_date_obj = Null
        THEN [frame |-> Skip(f), names |-> pl.existing_tasks_names]
        ELSE IF InCache(pl.existing_tasks_names, f.today, task_name)
        THEN [frame |-> Skip(f), names |-> pl.existing_tasks_names]
        ELSE LET start_time_str == SourceClock(source_date_obj.start)
                 end_time_str ==
                    IF Get(source_date_obj, "end", Null) # Null
                    THEN SourceClock(source_date_obj.end) ELSE NoneChars
                 new_planned_date ==
                    build_planned_datetime(f.today, start_time_str, end_time_str)
                 new_page_payload ==
                    build_new_page_payload(pl.registry_db_properties, task,
                                           task_name, new_planned_date)
             IN  [frame |-> ToCreate(f, task, task_name, new_page_payload),
                  names |-> CacheAdd(pl.existing_tasks_names, f.today, task_name)]

\* one pass of the loop of duplicate_unfinished_tasks_for_today, up to its
\* create call: [frame, names], the locals and the cache after it
DuplicateItem(f, pl) ==
    LET task  == Head(f.items)
        props == Get(task, "properties", <<>>)
        task_name == TaskName(props)
        horario_date == Get(Get(props, "Horario", <<>>), "date", Null)
        planificado_date == Get(Get(props, "Horario Planificado", <<>>), "date", Null)
        source_date_obj ==
            IF horario_date # Null THEN horario_date
            ELSE IF planificado_date # Null THEN planificado_date ELSE Null
    IN  IF ~Truthy(task_name) \/ source_date_obj = Null
        THEN [frame |-> Skip(f), names |-> pl.existing_tasks_names]
        ELSE IF InCache(pl.existing_tasks_names, f.today, task_name)
        THEN [frame |-> Skip(f), names |-> pl.existing_tasks_names]
        ELSE LET start_time_str == SourceClock(source_date_obj.start)
                 end_time_str ==
                    IF Get(source_date_obj, "end", Null) # Null
                    THEN SourceClock(source_date_obj.end) ELSE NoneChars
                 new_planned_date ==
                    build_planned_datetime(f.today, start_time_str, end_time_str)
                 new_page_payload ==
                    build_new_page_payload(pl.registry_db_properties, task,
                                           task_name, new_planned_date)
             IN  [frame |-> ToCreate(f, task, task_name, new_page_payload),
                  names |-> CacheAdd(pl.existing_tasks_names, f.today, task_name)]

\* the planned time of a template: its Hora Inicio and Hora Fin on today
TemplatePlanned(props, today) ==
    build_planned_datetime(today, ClockString(props, "Hora Inicio"),
                           ClockString(props, "Hora Fin"))

\* a pass that notes in the cache the name of a template that is not due
PeriodicItemNotesSkipped(f, pl) ==
    LET task  == Head(f.items)
        props == Get(task, "properties", <<>>)
        task_name == TaskName(props)
    IN  IF ~Truthy(task_name) \/ InCache(pl.existing_tasks_names, f.today, task_name)
        THEN [frame |-> Skip(f), names |-> pl.existing_tasks_names]
        ELSE IF is_task_scheduled_for_today(props, f.today)
        THEN [frame |-> ToCreate(f, task, task_name,
                            build_new_page_payload(pl.registry_db_properties, task,
                                task_name, TemplatePlanned(props, f.today))),
              names |-> pl.existing_tasks_names]
        ELSE [frame |-> Skip(f),
              names |-> CacheAdd(pl.existing_tasks_names, f.today, task_name)]

\* one pass of the loop of generate_periodic_tasks, up to its create call
PeriodicItem(f, pl) ==
    LET task  == Head(f.items)
        props == Get(task, "properties", <<>>)
        task_name == TaskName(props)
    IN  IF ~Truthy(task_name) \/ InCache(pl.existing_tasks_names, f.today, task_name)
        THEN [frame |-> Skip(f), names |-> pl.existing_tasks_names]
        ELSE IF is_task_scheduled_for_today(props, f.today)
        THEN [frame |-> ToCreate(f, task, task_name,
                            build_new_page_payload(pl.registry_db_properties, task,
                                task_name, TemplatePlanned(props, f.today))),
              names |-> pl.existing_tasks_names]
        ELSE [frame |-> Skip(f), names |-> pl.existing_tasks_names]

\* a pass that asks the recurrence evaluator before it creates
AlertedItemEvaluates(f, pl) ==
    LET task  == Head(f.items)
        props == Get(task, "properties", <<>>)
        task_name == TaskName(props)
    IN  IF ~Truthy(task_name)
        THEN [frame |-> Skip(f), names |-> pl.existing_tasks_names]
        ELSE IF InCache(pl.existing_tasks_names, f.today, task_name)
                \/ ~is_task_scheduled_for_today(props, f.today)
        THEN [frame |-> Skip(f), names |-> pl.existing_tasks_names]
        ELSE [frame |-> ToCreate(f, task, task_name,
                            build_new_page_payload(pl.registry_db_properties, task,
                                task_name, TemplatePlanned(props, f.today))),
              names |-> CacheAdd(pl.existing_tasks_names, f.today, task_name)]

\* one pass of the loop of add_alerted_objective_tasks, up to its create call
AlertedItem(f, pl) ==
    LET task  == Head(f.items)
        props == Get(task, "properties", <<>>)
        task_name == TaskName(props)
    IN  IF ~Truthy(task_name)
        THEN [frame |-> Skip(f), names |-> pl.existing_tasks_names]
        ELSE IF InCache(pl.existing_tasks_names, f.today, task_name)
        THEN [frame |-> Skip(f), names |-> pl.existing_tasks_names]
        ELSE [frame |-> ToCreate(f, task, task_name,
                            build_new_page_payload(pl.registry_db_properties, task,
                                task_name, TemplatePlanned(props, f.today))),
              names |-> CacheAdd(pl.existing_tasks_names, f.today, task_name)]

\* the cache after the create call of a phase returned
AfterCreate(fn, existing_tasks_names, today_str, task_name) ==
    IF fn = "periodic"
    THEN CacheAdd(existing_tasks_names, today_str, task_name)
    ELSE existing_tasks_names

\* the query a phase sends, answered by the store as it is now
PhaseResults(fn, today) ==
    CASE fn = "duplicate" -> QueryResults(registry, UnfinishedFilter(today))
      [] fn = "periodic" -> QueryResults(tasks_db, PeriodicFilter)
      [] fn = "alerted" -> QueryResults(tasks_db, AlertedFilter(today))

----------------------------------------------------------------------------
(* Actions *)

\* NotionDailyPlanner(api_key, registry_db_id, tasks_db_id), up to the schema GET
NewPlanner(p) ==
    /\ frame[p].pc = "idle"
    /\ planner' = [planner EXCEPT ![p] = NoPlanner]
    /\ frame' = [frame EXCEPT ![p] = [IdleFrame EXCEPT !.pc = "schema"]]
    /\ hist' = [hist EXCEPT ![p] = [NoHist EXCEPT !.born = Len(creates), !.base = Len(creates)]]
    /\ UNCHANGED <<clock, tasks_db, registry, creates, completed, call>>

\* NotionService.run_daily_plan and the triggers of the function app: read the
\* environment, give up on a missing variable, else construct a planner
Trigger(p, envs) ==
    /\ frame[p].pc = "idle"
    /\ \E env \in envs :
          frame' = [frame EXCEPT ![p] =
                       IF MissingEnv(env)
                       THEN [IdleFrame EXCEPT !.via = "service", !.env = env,
                                              !.outcome = "returned",
                                              !.status_code = 400]
                       ELSE [IdleFrame EXCEPT !.via = "service", !.env = env,
                                              !.pc = "schema"]]
    /\ planner' = [planner EXCEPT ![p] = NoPlanner]
    /\ hist' = [hist EXCEPT ![p] = [NoHist EXCEPT !.born = Len(creates), !.base = Len(creates)]]
    /\ UNCHANGED <<clock, tasks_db, registry, creates, completed, call>>

\* the end of __init__: the schema GET answers or fails (answers: the
\* outcomes the store of this specification produces); the service goes
\* straight on to run_daily_plan
GetDbProperties(p, answers) ==
    /\ frame[p].pc = "schema"
    /\ \E ok \in answers :
          /\ planner' = [planner EXCEPT ![p] =
                            [@ EXCEPT !.constructed = TRUE,
                                      !.registry_db_properties = get_db_properties(ok)]]
          /\ hist' = [hist EXCEPT ![p] =
                         [BeginHist(@, frame[p].via = "service")
                             EXCEPT !.called = TRUE, !.schema_ok = ok]]
    /\ frame' = [frame EXCEPT ![p] =
                    IF @.via = "service" THEN BeginRun(@, clock)
                    ELSE [@ EXCEPT !.pc = "idle"]]
    /\ UNCHANGED <<clock, tasks_db, registry, creates, completed, call>>

\* planner.run_daily_plan() by a caller that holds the planner
RunDailyPlan(p) ==
    /\ frame[p].pc = "idle" /\ frame[p].via = "direct" /\ planner[p].constructed
    /\ frame' = [frame EXCEPT ![p] = BeginRun(@, clock)]
    /\ hist' = [hist EXCEPT ![p] = [BeginHist(@, TRUE) EXCEPT !.called = FALSE]]
    /\ UNCHANGED <<clock, tasks_db, registry, planner, creates, completed, call>>

\* one of the three phase functions called on its own
StartPhase(p) ==
    /\ frame[p].pc = "idle" /\ frame[p].via = "direct" /\ planner[p].constructed
    /\ \E fn \in Range(PhaseOrder) :
          frame' = [frame EXCEPT ![p] =
                       EnterPhase([@ EXCEPT !.in_run = FALSE, !.outcome = "none"],
                                  fn, clock, planner[p].existing_tasks_names)]
    /\ hist' = [hist EXCEPT ![p] = [BeginHist(@, FALSE) EXCEPT !.called = FALSE]]
    /\ UNCHANGED <<clock, tasks_db, registry, planner, creates, completed, call>>

\* one HTTP attempt of the query of get_todays_scheduled_task_names
QueryToday(p) ==
    /\ frame[p].pc = "seed"
    /\ \E ok \in BOOLEAN :
          LET f     == frame[p]
              names == TodaysNames(QueryResults(registry, TodayFilter(f.today)))
              cache == Put(planner[p].existing_tasks_names, f.today, names)
          IN  /\ hist' = [hist EXCEPT ![p] =
                             IF ok /\ f.fn = "run"
                             THEN [Attempt(@, f, ok)
                                      EXCEPT !.seed_names = names, !.seeded = TRUE,
                                             !.seed_at = Len(creates)]
                             ELSE Attempt(@, f, ok)]
              /\ IF ok
                 THEN /\ planner' = [planner EXCEPT ![p].existing_tasks_names = cache]
                      /\ frame' = [frame EXCEPT ![p] =
                                      IF f.fn = "run"
                                      THEN EnterPhase(f, PhaseOrder[1], clock, cache)
                                      ELSE [f EXCEPT !.pc = "query", !.attempts = 0]]
                 ELSE /\ planner' = planner
                      /\ frame' = [frame EXCEPT ![p] = Failed(f)]
    /\ UNCHANGED <<clock, tasks_db, registry, creates, completed, call>>

\* one HTTP attempt of the query of a phase
QueryPhase(p) ==
    /\ frame[p].pc = "query"
    /\ \E ok \in BOOLEAN :
          LET f == frame[p]
          IN  /\ hist' = [hist EXCEPT ![p] = Attempt(@, f, ok)]
              /\ frame' = [frame EXCEPT ![p] =
                              IF ok
                              THEN [f EXCEPT !.pc = "loop", !.attempts = 0,
                                             !.items = PhaseResults(f.fn, f.today)]
                              ELSE Failed(f)]
    /\ UNCHANGED <<clock, tasks_db, registry, planner, creates, completed, call>>

\* the for loop of a phase: one record up to its create call, or, the records
\* done, the return of the phase and what run_daily_plan does next
LoopStep(p) ==
    /\ frame[p].pc = "loop"
    /\ LET f == frame[p]
           step == CASE f.fn = "duplicate" -> DuplicateItem(f, planner[p])
                     [] f.fn = "periodic" -> PeriodicItem(f, planner[p])
                     [] f.fn = "alerted" -> AlertedItem(f, planner[p])
           next == NextPhase(f, clock, planner[p].existing_tasks_names)
       IN  IF f.items = <<>>
           THEN /\ frame' = [frame EXCEPT ![p] = next]
                /\ completed' = IF next.pc = "idle" /\ f.in_run /\ clock = f.run_today
                                THEN completed \cup {f.run_today} ELSE completed
                /\ UNCHANGED <<planner, hist>>
           ELSE /\ frame' = [frame EXCEPT ![p] = step.frame]
                /\ planner' = [planner EXCEPT ![p].existing_tasks_names = step.names]
                /\ UNCHANGED <<hist, completed>>
    /\ UNCHANGED <<clock, tasks_db, registry, creates, call>>

\* one HTTP attempt of create_page
CreatePage(p) ==
    /\ frame[p].pc = "create"
    /\ \E ok \in BOOLEAN :
          LET f == frame[p]
          IN  /\ hist' = [hist EXCEPT ![p] = Attempt(@, f, ok)]
              /\ IF ok
                 THEN /\ registry' = Append(registry,
                             StoredPage("n" \o ToString(Len(registry) + 1), f.payload))
                      /\ creates' = Append(creates,
                             [planner |-> p, fn |-> f.fn, in_run |-> f.in_run,
                              source |-> f.source, name |-> f.task_name,
                              today |-> f.today, payload |-> f.payload])
                      /\ planner' = [planner EXCEPT ![p].existing_tasks_names =
                             AfterCreate(f.fn, @, f.today, f.task_name)]
                      /\ frame' = [frame EXCEPT ![p] =
                             [f EXCEPT !.pc = "loop", !.items = Tail(f.items),
                                       !.payload = <<>>, !.attempts = 0,
                                       !.task_name = None, !.source = None]]
                 ELSE /\ frame' = [frame EXCEPT ![p] = Failed(f)]
                      /\ UNCHANGED <<registry, creates, planner>>
    /\ UNCHANGED <<clock, tasks_db, completed, call>>

\* the host clock passes midnight: the next datetime.date.today() is a day on
Tick ==
    /\ ToOrdinal(clock) - ToOrdinal(Today0) < MaxMidnights
    /\ clock' = NextDay(clock)
    /\ UNCHANGED <<tasks_db, registry, planner, frame, creates, completed, hist, call>>

\* calls made one at a time on one planner, all on one calendar date
Next ==
    \E p \in {"manual"} :
        \/ NewPlanner(p)
        \/ GetDbProperties(p, {TRUE})
        \/ RunDailyPlan(p)
        \/ StartPhase(p)
        \/ QueryToday(p)
        \/ QueryPhase(p)
        \/ LoopStep(p)
        \/ CreatePage(p)

Spec == Init /\ [][Next]_vars

\* the same calls over a tasks database of templates with alert dates
InitAlerts ==
    /\ clock = Today0
    /\ call = NoCall
    /\ tasks_db \in Stores(AlertUniverse, MaxAlertTemplates)
    /\ registry \in Stores(RegistryUniverse, MaxAlertRegistry)
    /\ planner = [p \in Planners |-> NoPlanner]
    /\ frame = [p \in Planners |-> IdleFrame]
    /\ creates = <<>>
    /\ completed = {}
    /\ hist = [p \in Planners |-> NoHist]

\* run_daily_plan called on one planner, all on one calendar date
NextAlerts ==
    \E p \in {"manual"} :
        \/ NewPlanner(p)
        \/ GetDbProperties(p, {TRUE})
        \/ RunDailyPlan(p)
        \/ QueryToday(p)
        \/ QueryPhase(p)
        \/ LoopStep(p)
        \/ CreatePage(p)

SpecAlerts == InitAlerts /\ [][NextAlerts]_vars

\* a planner nobody calls run_daily_plan on
InitPhases ==
    /\ clock = Today0
    /\ call = NoCall
    /\ tasks_db \in Stores(TemplateUniverse, MaxPhaseTemplates)
    /\ registry \in Stores(RegistryUniverse, MaxPhaseRegistry)
    /\ planner = [p \in Planners |-> NoPlanner]
    /\ frame = [p \in Planners |-> IdleFrame]
    /\ creates = <<>>
    /\ completed = {}
    /\ hist = [p \in Planners |-> NoHist]

\* the phase functions called on their own, one call at a time, on planners
\* the caller has only constructed, all on one calendar date
NextPhases ==
    \E p \in {"manual"} :
        \/ NewPlanner(p)
        \/ GetDbProperties(p, {TRUE})
        \/ StartPhase(p)
        \/ QueryToday(p)
        \/ QueryPhase(p)
        \/ LoopStep(p)
        \/ CreatePage(p)

SpecPhases == InitPhases /\ [][NextPhases]_vars

\* the same calls over a registry of records to carry over
InitCarry ==
    /\ clock = Today0
    /\ call = NoCall
    /\ tasks_db \in Stores(TemplateUniverse, MaxCarryTemplates)
    /\ registry \in Stores(CarryUniverse, MaxCarryRegistry)
    /\ planner = [p \in Planners |-> NoPlanner]
    /\ frame = [p \in Planners |-> IdleFrame]
    /\ creates = <<>>
    /\ completed = {}
    /\ hist = [p \in Planners |-> NoHist]

SpecCarry == InitCarry /\ [][NextAlerts]_vars

\* run_daily_plan called at any time of the day: midnight may pass between
\* any two steps of a run
NextMidnight ==
    \/ Tick
    \/ \E p \in {"manual"} :
        \/ NewPlanner(p)
        \/ GetDbProperties(p, {TRUE})
        \/ RunDailyPlan(p)
        \/ QueryToday(p)
        \/ QueryPhase(p)
        \/ LoopStep(p)
        \/ CreatePage(p)

InitMidnight == InitWith(MaxMidnightTemplates, MaxMidnightRegistry)

SpecMidnight == InitMidnight /\ [][NextMidnight]_vars

\* NotionService.run_daily_plan called again and again, one call at a time,
\* under any environment and with a schema GET that may fail
NextService ==
    \E p \in {"manual"} :
        \/ Trigger(p, Envs)
        \/ GetDbProperties(p, BOOLEAN)
        \/ QueryToday(p)
        \/ QueryPhase(p)
        \/ LoopStep(p)
        \/ CreatePage(p)

SpecService == Init /\ [][NextService]_vars

\* the scheduled and the manual trigger, each fired once, their steps
\* interleaved at the remote calls
TriggerOnce(p) == frame[p].outcome = "none" /\ Trigger(p, {FullEnv})

NextConcurrent ==
    \E p \in Planners :
        \/ TriggerOnce(p)
        \/ GetDbProperties(p, {TRUE})
        \/ QueryToday(p)
        \/ QueryPhase(p)
        \/ LoopStep(p)
        \/ CreatePage(p)

InitConcurrent == InitWith(MaxConcurrentTemplates, MaxConcurrentRegistry)

SpecConcurrent == InitConcurrent /\ [][NextConcurrent]_vars

----------------------------------------------------------------------------
(* is_task_scheduled_for_today called on its own *)

\* the options of the multi-selects Periodicidad and Semana del mes
Periodicidades == {"Diaria", "Semanal", "Mensual", "Anual"}

Semanas == <<"1ª", "2ª", "3ª", "4ª", "Última">>

\* the option names of a set of numbers (weekdays, days, months), in order
NumberOptions(S, n) ==
    LET chosen == SelectSeq([i \in 1..n |-> i], LAMBDA i : i \in S)
    IN  [j \in DOMAIN chosen |-> ToString(chosen[j])]

\* the lists of at most n different options: a multi-select holds an option once
OptionLists(S, n) ==
    UNION {{l \in [1..k -> S] : \A i, j \in 1..k : i # j => l[i] # l[j]} : k \in 0..n}

\* the scheduling rules of the templates evaluated; listed is FALSE for a
\* template without the property Periodicidad
Rules ==
    [listed : BOOLEAN,
     periodicities : OptionLists(Periodicidades, MaxPeriodicities),
     days_of_week : {{}, {1, 5}, {1}, {2}, {5}, {7}},
     days_of_month : {{}, {15}, {20}},
     weeks_of_month : {{}, {"1ª", "Última"}} \cup {{Semanas[k]} : k \in DOMAIN Semanas},
     months : {{}, {10}}]

\* the template of create_periodic_task: a property per rule that is given
PeriodicTask(rule) ==
    LET named == [x \in {"Nombre", "Tipo"} |->
                     IF x = "Nombre" THEN TitleProp("A") ELSE SelectProp("Periódica")]
        p1 == IF rule.listed
              THEN Put(named, "Periodicidad", MultiSelectProp(rule.periodicities))
              ELSE named
        p2 == IF rule.days_of_week # {}
              THEN Put(p1, "Día de la semana",
                       MultiSelectProp(NumberOptions(rule.days_of_week, 7)))
              ELSE p1
        p3 == IF rule.days_of_month # {}
              THEN Put(p2, "Día del mes",
                       MultiSelectProp(NumberOptions(rule.days_of_month, 31)))
              ELSE p2
        p4 == IF rule.weeks_of_month # {}
              THEN Put(p3, "Semana del mes",
                       MultiSelectProp(SelectSeq(Semanas,
                                                 LAMBDA w : w \in rule.weeks_of_month)))
              ELSE p3
    IN  IF rule.months # {}
        THEN Put(p4, "Mes", MultiSelectProp(NumberOptions(rule.months, 12)))
        ELSE p4

\* the dates evaluated: every day of a month of 28, 29, 30 and 31 days, and
\* of the same month a year earlier
EvaluatedMonths == {<<2025, 2>>, <<2024, 2>>, <<2025, 4>>, <<2025, 10>>, <<2024, 10>>}

Dates ==
    UNION {{[year |-> ym[1], month |-> ym[2], day |-> d] :
               d \in 1..DaysInMonth(ym[1], ym[2])} : ym \in EvaluatedMonths}

InitEvaluator ==
    /\ clock \in Dates
    /\ \E rule \in Rules :
          /\ rule.listed \/ rule.periodicities = <<>>
          /\ call = [fn |-> "is_task_scheduled_for_today", rule |-> rule,
                     task_props |-> PeriodicTask(rule), today |-> clock,
                     done |-> FALSE, result |-> FALSE]
    /\ tasks_db = <<>>
    /\ registry = <<>>
    /\ planner = [p \in Planners |-> NoPlanner]
    /\ frame = [p \in Planners |-> IdleFrame]
    /\ creates = <<>>
    /\ completed = {}
    /\ hist = [p \in Planners |-> NoHist]

\* self._is_task_scheduled_for_today(props, today)
Evaluate ==
    /\ call.fn = "is_task_scheduled_for_today" /\ ~call.done
    /\ call' = [call EXCEPT !.done = TRUE,
                            !.result = is_task_scheduled_for_today(call.task_props,
                                                                   call.today)]
    /\ UNCHANGED <<clock, tasks_db, registry, planner, frame, creates, completed, hist>>

SpecEvaluator == InitEvaluator /\ [][Evaluate]_vars

----------------------------------------------------------------------------
(* The payload builder on its own: a source record, a target schema *)

\* a date of the day before, as Notion returns it
Yesterday0 == DateProp(DateValue(At(PrevDay(Today0), 9, 0, 0, PlannerOffset), Null))

\* property objects of every type the copy tells apart, empty and set
WritableValues ==
    {RichTextProp(<<>>), RichTextProp(<<"x">>),
     [type |-> "number"], [type |-> "number", number |-> 5],
     SelectProp(None), SelectProp("High"),
     MultiSelectProp(<<>>), MultiSelectProp(<<"a">>),
     DateProp(Null), Yesterday0,
     [type |-> "checkbox", checkbox |-> FALSE],
     [type |-> "url", url |-> None], [type |-> "url", url |-> "u"],
     [type |-> "email", email |-> "e"]}

\* property objects of the types Notion computes
ReadOnlyValues ==
    {FormulaProp("test"),
     [type |-> "rollup", rollup |-> [type |-> "array"]],
     [type |-> "created_by", created_by |-> [id |-> "u1"]],
     [type |-> "created_time", created_time |-> "2025-10-05T08:00:00.000Z"],
     [type |-> "last_edited_by", last_edited_by |-> [id |-> "u1"]],
     [type |-> "last_edited_time", last_edited_time |-> "2025-10-05T08:00:00.000Z"]}

\* property objects of types the copy has no branch for
OtherValues == {RelationProp(<<"x">>), [type |-> "people", people |-> <<>>]}

\* no property of that name in the record
Absent == [absent |-> TRUE]

\* what a source record may hold under each property name
SourceValues ==
    [x \in {"Nombre", "Tarea", "Horario", "Horario Planificado", "Priority", "Effort"} |->
        CASE x = "Nombre" -> {TitleProp("A"),
                              [type |-> "title", title |-> <<RichItem("A"), RichItem("b")>>]}
          [] x = "Tarea" -> {Absent, RelationProp(<<>>), RelationProp(<<"t1">>)}
          [] x = "Horario" -> {Absent, DateProp(Null), Yesterday0}
          [] x = "Horario Planificado" -> {Absent, Yesterday0}
          [] x = "Priority" -> {Absent} \cup WritableValues \cup ReadOnlyValues
                                    \cup OtherValues
          [] x = "Effort" -> {Absent, [type |-> "number", number |-> 5],
                              FormulaProp("test"),
                              [type |-> "rollup", rollup |-> [type |-> "array"]],
                              [type |-> "created_time",
                               created_time |-> "2025-10-05T08:00:00.000Z"]}]

\* the record of a choice of values: the task named "A", its title in one or
\* two segments, and the properties chosen
SourceTask(choice) ==
    LET present == {x \in DOMAIN choice : choice[x] # Absent}
    IN  [id |-> "s1", properties |-> [x \in present |-> choice[x]]]

\* the target schemas: any set of these property names
Schemas ==
    SUBSET {"Nombre", "Tarea", "Horario", "Horario Planificado", "Priority", "Effort"}

InitBuilder ==
    /\ clock = Today0
    /\ \E nombre \in SourceValues["Nombre"],
          tarea \in SourceValues["Tarea"], horario \in SourceValues["Horario"],
          planificado \in SourceValues["Horario Planificado"],
          priority \in SourceValues["Priority"], effort \in SourceValues["Effort"],
          schema \in Schemas :
          LET choice == [x \in DOMAIN SourceValues |->
                            CASE x = "Nombre" -> nombre
                              [] x = "Tarea" -> tarea
                              [] x = "Horario" -> horario
                              [] x = "Horario Planificado" -> planificado
                              [] x = "Priority" -> priority
                              [] x = "Effort" -> effort]
          IN  call = [fn |-> "build_new_page_payload",
                      registry_db_properties |-> schema,
                      source_task |-> SourceTask(choice),
                      task_name |-> TaskName(SourceTask(choice).properties),
                      planned_date |-> Noon(clock),
                      done |-> FALSE, result |-> <<>>]
    /\ tasks_db = <<>>
    /\ registry = <<>>
    /\ planner = [p \in Planners |-> NoPlanner]
    /\ frame = [p \in Planners |-> IdleFrame]
    /\ creates = <<>>
    /\ completed = {}
    /\ hist = [p \in Planners |-> NoHist]

\* self._build_new_page_payload(task, task_name, planned_date)
Build ==
    /\ call.fn = "build_new_page_payload" /\ ~call.done
    /\ call' = [call EXCEPT !.done = TRUE,
                            !.result = build_new_page_payload(call.registry_db_properties,
                                                              call.source_task,
                                                              call.task_name,
                                                              call.planned_date)]
    /\ UNCHANGED <<clock, tasks_db, registry, planner, frame, creates, completed, hist>>

SpecBuilder == InitBuilder /\ [][Build]_vars

----------------------------------------------------------------------------
(* Properties *)

\* the creates of planner p later than the n-th create
CreatesSince(p, n) == {i \in DOMAIN creates : i > n /\ creates[i].planner = p}

\* the named records the carry-over query returns from the registry as it is
CarryOver(today) ==
    LET found == QueryResults(registry, UnfinishedFilter(today))
    IN  {found[i] : i \in DOMAIN found}

\* the names of the templates a run would create a page for on today
TemplateNames(today) ==
    LET periodic == QueryResults(tasks_db, PeriodicFilter)
        alerted  == QueryResults(tasks_db, AlertedFilter(today))
    IN  {TaskName(periodic[i].properties) : i \in
            {j \in DOMAIN periodic :
                is_task_scheduled_for_today(periodic[j].properties, today)}}
        \cup {TaskName(alerted[i].properties) : i \in DOMAIN alerted}

\* the place of a phase in the order of the design: carry-over, periodic, alerted
Rank(fn) == CASE fn = "duplicate" -> 1 [] fn = "periodic" -> 2 [] fn = "alerted" -> 3

\* C1: on one date, one planner object never creates two pages with the same
\* name, whatever phases are called on it, in whatever order and how often
C1_OnePagePerName ==
    \A p \in Planners :
        \A i, j \in CreatesSince(p, hist[p].born) :
            (i < j /\ creates[i].today = creates[j].today)
                => creates[i].name # creates[j].name

\* generate_periodic_tasks has returned a second time on a planner that
\* created a page in an earlier call of it
C1_Witness ==
    \E p \in Planners :
        /\ frame[p].fn = "periodic" /\ ~frame[p].in_run
        /\ frame[p].outcome = "returned"
        /\ \E i \in CreatesSince(p, hist[p].born) :
              i <= hist[p].base /\ creates[i].fn = "periodic" /\ ~creates[i].in_run

\* the names a carried-over record shares with a template due today, and
\* that today's registry did not hold when the run seeded its cache
Collisions(p) ==
    {n \in {TaskName(r.properties) : r \in CarryOver(frame[p].run_today)} :
        /\ Truthy(n)
        /\ n \in TemplateNames(frame[p].run_today)
        /\ n \notin hist[p].seed_names}

\* C2: a run creates its pages in the order carry-over, periodic, alerted;
\* for a name shared by a carried-over record and a due template, the run
\* creates no page but from the carried-over record, and exactly one once it
\* has returned
C2_CarryOverFirst ==
    \A p \in Planners :
        (frame[p].in_run /\ hist[p].seeded) =>
            LET mine == CreatesSince(p, hist[p].base)
            IN  /\ \A i, j \in mine : i < j => Rank(creates[i].fn) <= Rank(creates[j].fn)
                /\ \A n \in Collisions(p) :
                      LET pages == {i \in mine : creates[i].name = n}
                      IN  /\ \A i \in pages :
                                /\ creates[i].fn = "duplicate"
                                /\ creates[i].source \in
                                      {r.id : r \in CarryOver(frame[p].run_today)}
                          /\ Cardinality(pages) <= 1
                          /\ frame[p].outcome = "returned" => Cardinality(pages) = 1

\* a run has created two pages under one name, the first from a carried-over
\* record and the second from a template
C2_TwoPages ==
    \E p \in Planners :
        /\ frame[p].in_run
        /\ \E i, j \in CreatesSince(p, hist[p].base) :
              /\ i < j /\ creates[i].name = creates[j].name
              /\ creates[i].fn = "duplicate" /\ creates[j].fn = "periodic"

\* C3: a run creates no page under a name its seeding query returned
C3_SeededNamesSkipped ==
    \A p \in Planners :
        (frame[p].in_run /\ hist[p].seeded) =>
            \A i \in CreatesSince(p, hist[p].base) :
                creates[i].name \notin hist[p].seed_names

\* C4: a run started on a date on which a run already started and returned
\* creates no page for that date
C4_SecondRunCreatesNothing ==
    \A p \in Planners :
        (frame[p].in_run /\ hist[p].after_done) =>
            \A i \in CreatesSince(p, hist[p].base) :
                creates[i].today # frame[p].run_today

\* a second run has returned on the date, the first having created a page
C4_Witness ==
    \E p \in Planners :
        /\ frame[p].in_run /\ hist[p].after_done /\ frame[p].outcome = "returned"
        /\ \E i \in DOMAIN creates : creates[i].in_run /\ i <= hist[p].base

\* the pairs of pages two different planners created under one name for one date
CrossDuplicates ==
    {pair \in (DOMAIN creates) \X (DOMAIN creates) :
        /\ pair[1] < pair[2]
        /\ creates[pair[1]].planner # creates[pair[2]].planner
        /\ creates[pair[1]].name = creates[pair[2]].name
        /\ creates[pair[1]].today = creates[pair[2]].today}

\* C5: two overlapping runs on planners of their own can create a page under
\* the same name for the same date each; they do so only when the run that
\* creates second seeded its cache before the first page was created
C5_DuplicateOnlyOnOverlap ==
    \A pair \in CrossDuplicates :
        hist[creates[pair[2]].planner].seed_at < pair[1]

\* both runs seeded their caches before either created, and both created a
\* page under the same name for the same date
C5_Witness ==
    \E pair \in CrossDuplicates :
        /\ hist[creates[pair[1]].planner].seed_at < pair[1]
        /\ hist[creates[pair[2]].planner].seed_at < pair[1]
        /\ creates[pair[1]].in_run /\ creates[pair[2]].in_run

\* the program counters at which a planner is inside a call wrapped in @retry
RemoteCalls == {"seed", "query", "create"}

\* C6: an attempt of query_database or create_page is never later than the
\* RETRY_ATTEMPTS-th of its call; a failed attempt is followed by another one
\* when it is earlier than the RETRY_ATTEMPTS-th and by the terminal error
\* when it is the RETRY_ATTEMPTS-th; a successful attempt ends the call with
\* its result (the page created, the records or the names handed on)
C6_RetryPolicy ==
    [][\A p \in Planners :
          LET f == frame[p]
              g == frame'[p]
              k == f.attempts + 1
          IN  (f.pc \in RemoteCalls /\ g # f) =>
                 /\ k <= RETRY_ATTEMPTS
                 /\ \/ /\ g = [f EXCEPT !.attempts = k]
                       /\ k < RETRY_ATTEMPTS
                       /\ creates' = creates /\ planner' = planner
                    \/ /\ g.pc = "idle" /\ g.outcome = "raised"
                       /\ k = RETRY_ATTEMPTS
                       /\ creates' = creates /\ planner' = planner
                    \/ /\ g.pc \in {"query", "loop"} /\ g.attempts = 0
                       /\ g.outcome # "raised"
                       /\ f.pc = "create" <=> Len(creates') = Len(creates) + 1
                       /\ f.pc = "query" => g.items = PhaseResults(f.fn, f.today)
                       /\ f.pc = "seed" =>
                             f.today \in DOMAIN planner'[p].existing_tasks_names]_vars

\* a create call is about to make its last attempt, the earlier ones failed
C6_Witness ==
    \E p \in Planners :
        frame[p].pc = "create" /\ frame[p].attempts = RETRY_ATTEMPTS - 1

\* C7: once a remote call of a phase has exhausted its retries the call the
\* caller made has ended with the error: no record is left to process, no
\* phase is entered and no page is created after it
C7_TerminalErrorPropagates ==
    \A p \in Planners :
        hist[p].terminal =>
            /\ frame[p].pc = "idle" /\ frame[p].outcome = "raised"
            /\ frame[p].items = <<>>
            /\ CreatesSince(p, hist[p].terminal_at) = {}

\* the carry-over phase of a run ended with the terminal error while a
\* template was due under a name the cache does not hold
C7_Witness ==
    \E p \in Planners :
        /\ hist[p].terminal /\ frame[p].in_run /\ frame[p].fn = "duplicate"
        /\ \E n \in TemplateNames(frame[p].today) :
              /\ Truthy(n)
              /\ ~InCache(planner[p].existing_tasks_names, frame[p].today, n)

\* the environment variables of a call that are unset or empty
Unset(env) == {n \in EnvNames : env[n] \in {None, ""}}

\* C8: a service call with an unset or empty variable has returned status 400
\* with no planner constructed and no remote call made; no other call
\* returns status 400
C8_MissingEnvironment ==
    \A p \in Planners :
        frame[p].via = "service" =>
            /\ Unset(frame[p].env) # {} =>
                  /\ frame[p].pc = "idle" /\ frame[p].status_code = 400
                  /\ ~planner[p].constructed
                  /\ ~hist[p].called
                  /\ CreatesSince(p, hist[p].born) = {}
            /\ frame[p].status_code = 400 => Unset(frame[p].env) # {}

\* a call returned 400 with one variable empty and the others set
C8_Witness ==
    \E p \in Planners :
        /\ frame[p].status_code = 400
        /\ \E n \in EnvNames :
              frame[p].env[n] = "" /\ \A m \in EnvNames \ {n} : frame[p].env[m] = "set"

\* C9: a service call with complete configuration reports nothing while it
\* runs and one outcome when it ends: 200 when the run returned, 500 when a
\* terminal error left it
C9_AggregateOutcome ==
    \A p \in Planners :
        (frame[p].via = "service" /\ Unset(frame[p].env) = {}) =>
            /\ frame[p].pc # "idle" => frame[p].status_code = 0
            /\ frame[p].pc = "idle" =>
                  /\ frame[p].status_code \in {200, 500}
                  /\ frame[p].status_code = 200 <=>
                        (frame[p].outcome = "returned" /\ ~hist[p].terminal)
                  /\ frame[p].status_code = 500 <=>
                        (frame[p].outcome = "raised" /\ hist[p].terminal)

\* a call returned 200 having skipped every record it read: the stores hold
\* records and the run created nothing
C9_Witness ==
    \E p \in Planners :
        /\ frame[p].via = "service" /\ frame[p].status_code = 200
        /\ CreatesSince(p, hist[p].base) = {}
        /\ tasks_db # <<>> /\ registry # <<>>

\* C10: a planner whose schema GET failed is constructed with an empty
\* schema, and the pages it creates carry the name and the planned time only
C10_EmptySchema ==
    \A p \in Planners :
        (planner[p].constructed /\ ~hist[p].schema_ok) =>
            /\ planner[p].registry_db_properties = {}
            /\ \A i \in CreatesSince(p, hist[p].born) :
                  DOMAIN creates[i].payload.properties
                      \subseteq {"Nombre", "Horario Planificado"}

\* a planner whose schema GET failed created a page from a record that
\* carries a field of the registry schema
C10_Witness ==
    \E p \in Planners :
        /\ planner[p].constructed /\ ~hist[p].schema_ok
        /\ \E i \in CreatesSince(p, hist[p].born) :
              \E k \in DOMAIN tasks_db :
                  /\ tasks_db[k].id = creates[i].source
                  /\ "Priority" \in DOMAIN tasks_db[k].properties

----------------------------------------------------------------------------
(* Properties of the evaluator *)

\* the ISO weekday of a date, counted from Monday 2025-10-06
WeekdayOf(d) ==
    ((ToOrdinal(d) - ToOrdinal([year |-> 2025, month |-> 10, day |-> 6])) % 7) + 1

\* the evaluator has returned for the rule and the date of the call
Evaluated == call.fn = "is_task_scheduled_for_today" /\ call.done

\* the evaluator has returned for a template whose periodicities are these
EvaluatedFor(periodicities) ==
    Evaluated /\ call.rule.listed /\ call.rule.periodicities = periodicities

\* C11: the evaluator returns false for a template whose periodicities are
\* empty or absent, on every date and whatever its other fields hold
C11_NoPeriodicityNeverDue ==
    (Evaluated /\ call.rule.periodicities = <<>>) => ~call.result

\* evaluated on the 15th: a template without the property Periodicidad that
\* names the 15th, the weekday of the date and a month
C11_Witness ==
    /\ Evaluated /\ ~call.rule.listed
    /\ call.today.day = 15 /\ call.rule.days_of_month = {15}
    /\ call.rule.days_of_week = {WeekdayOf(call.today)}
    /\ call.rule.months # {}

\* C12: a template that lists Diaria is due on every date, wherever Diaria
\* stands in the list and whatever else the template holds
C12_DailyAlwaysDue ==
    (Evaluated /\ call.rule.listed /\ "Diaria" \in Range(call.rule.periodicities))
        => call.result

\* Diaria listed after Semanal on a date whose weekday the template lacks
C12_Witness ==
    /\ EvaluatedFor(<<"Semanal", "Diaria">>)
    /\ call.rule.days_of_week # {}
    /\ WeekdayOf(call.today) \notin call.rule.days_of_week

\* the rule Semanal: the ISO weekday of the date is a day of the week of the rule
WeeklyRule(rule, d) == WeekdayOf(d) \in rule.days_of_week

\* C13: a template whose only periodicity is Semanal is due exactly on the
\* dates whose ISO weekday (Monday 1 .. Sunday 7) is among its days of the week
C13_WeeklyByIsoWeekday ==
    EvaluatedFor(<<"Semanal">>) => (call.result <=> WeeklyRule(call.rule, call.today))

\* days of the week {1}, evaluated due on Monday 2025-10-06
C13_Witness ==
    /\ EvaluatedFor(<<"Semanal">>) /\ call.result
    /\ call.rule.days_of_week = {1}
    /\ call.today = [year |-> 2025, month |-> 10, day |-> 6]

\* the week of the rule Mensual: the week counted from the first of the month
\* is a numbered week of the rule, or the rule names the last week and the
\* date is among the last seven days of its month
WeekOfMonthRule(rule, d) ==
    \/ \E k \in 1..4 : Semanas[k] \in rule.weeks_of_month /\ (d.day - 1) \div 7 + 1 = k
    \/ "Última" \in rule.weeks_of_month /\ d.day > DaysInMonth(d.year, d.month) - 7

\* the rule Mensual
MonthlyRule(rule, d) ==
    \/ d.day \in rule.days_of_month
    \/ /\ rule.weeks_of_month # {} /\ rule.days_of_week # {}
       /\ WeekdayOf(d) \in rule.days_of_week
       /\ WeekOfMonthRule(rule, d)

\* C14: a template whose only periodicity is Mensual is due exactly when the
\* day is among its days of the month, or weeks and weekdays are both given,
\* the weekday is among them and the week of the month matches; with day 15
\* and no week it is due on the 15th only, whatever its weekdays are
C14_MonthlyRule ==
    EvaluatedFor(<<"Mensual">>) =>
        /\ call.result <=> MonthlyRule(call.rule, call.today)
        /\ (call.rule.days_of_month = {15} /\ call.rule.weeks_of_month = {})
              => (call.result <=> call.today.day = 15)

\* day 15, no week, weekdays given: due on a 15th that is none of the weekdays
C14_Witness ==
    /\ EvaluatedFor(<<"Mensual">>) /\ call.result
    /\ call.rule.days_of_month = {15} /\ call.rule.weeks_of_month = {}
    /\ call.rule.days_of_week # {}
    /\ WeekdayOf(call.today) \notin call.rule.days_of_week
    /\ call.today.day = 15

\* the rule Anual
YearlyRule(rule, d) == d.month \in rule.months /\ d.day \in rule.days_of_month

\* C15: a template whose only periodicity is Anual is due exactly when the
\* month is among its months and the day among its days of the month, in
\* every year
C15_YearlyRule ==
    EvaluatedFor(<<"Anual">>) => (call.result <=> YearlyRule(call.rule, call.today))

\* months {10}, days {20}: due on 20 October of a year other than 2025
C15_Witness ==
    /\ EvaluatedFor(<<"Anual">>) /\ call.result
    /\ call.rule.months = {10} /\ call.rule.days_of_month = {20}
    /\ call.today.month = 10 /\ call.today.day = 20 /\ call.today.year # 2025

\* the rule of one periodicity
RuleOf(periodicity, rule, d) ==
    CASE periodicity = "Diaria" -> TRUE
      [] periodicity = "Semanal" -> WeeklyRule(rule, d)
      [] periodicity = "Mensual" -> MonthlyRule(rule, d)
      [] periodicity = "Anual" -> YearlyRule(rule, d)

\* the list in the opposite order
Reversed(l) == [i \in DOMAIN l |-> l[Len(l) + 1 - i]]

\* C16: the evaluator returns the OR of the rules of the periodicities the
\* template lists, and the same for the list in the opposite order
C16_OrOfRules ==
    (Evaluated /\ call.rule.listed) =>
        /\ call.result <=>
              \E i \in DOMAIN call.rule.periodicities :
                  RuleOf(call.rule.periodicities[i], call.rule, call.today)
        /\ call.result <=>
              is_task_scheduled_for_today(
                  PeriodicTask([call.rule EXCEPT
                                   !.periodicities = Reversed(call.rule.periodicities)]),
                  call.today)

\* two periodicities of which only the second is due on the date
C16_Witness ==
    /\ Evaluated /\ call.rule.listed /\ call.result
    /\ Len(call.rule.periodicities) = 2
    /\ "Diaria" \notin Range(call.rule.periodicities)
    /\ ~RuleOf(call.rule.periodicities[1], call.rule, call.today)
    /\ RuleOf(call.rule.periodicities[2], call.rule, call.today)

\* the days of the month of d that fall on weekday w
DaysOn(w, d) ==
    {x \in 1..DaysInMonth(d.year, d.month) : WeekdayOf([d EXCEPT !.day = x]) = w}

\* the days of the month of the call on which the evaluator returns true for
\* the template of the call
DueDays ==
    {x \in 1..DaysInMonth(call.today.year, call.today.month) :
        is_task_scheduled_for_today(call.task_props, [call.today EXCEPT !.day = x])}

\* a template whose only periodicity is Mensual, with one week, one weekday
\* and no day of the month
EvaluatedForWeek(week) ==
    /\ EvaluatedFor(<<"Mensual">>)
    /\ call.rule.weeks_of_month = {week}
    /\ Cardinality(call.rule.days_of_week) = 1
    /\ call.rule.days_of_month = {}

\* C17: with the k-th week (k in 1..4) and weekday d the template is due on
\* the k-th d of the month and on no other day of the month
C17_KthWeekday ==
    \A k \in 1..4 :
        EvaluatedForWeek(Semanas[k]) =>
            LET w == CHOOSE x \in call.rule.days_of_week : TRUE
                before == {x \in DaysOn(w, call.today) : x <= call.today.day}
            IN  /\ call.result <=>
                      (call.today.day \in DaysOn(w, call.today) /\ Cardinality(before) = k)
                /\ Cardinality(DueDays) = 1
                /\ DueDays \subseteq DaysOn(w, call.today)

\* second Tuesday: evaluated due on 2025-10-14
C17_Witness ==
    /\ EvaluatedForWeek("2ª") /\ call.result
    /\ call.rule.days_of_week = {2}
    /\ call.today = [year |-> 2025, month |-> 10, day |-> 14]

\* C18: with the last week and weekday d the template is due on the last d of
\* the month and on no other day of the month, the d a week earlier included
C18_LastWeekday ==
    EvaluatedForWeek("Última") =>
        LET w == CHOOSE x \in call.rule.days_of_week : TRUE
            last == CHOOSE x \in DaysOn(w, call.today) :
                        \A y \in DaysOn(w, call.today) : y <= x
        IN  /\ call.result <=> call.today.day = last
            /\ DueDays = {last}
            /\ last - 7 \notin DueDays

\* last Friday: evaluated not due on 2025-10-24, a week before the last one
C18_Witness ==
    /\ EvaluatedForWeek("Última") /\ ~call.result
    /\ call.rule.days_of_week = {5}
    /\ call.today = [year |-> 2025, month |-> 10, day |-> 24]

----------------------------------------------------------------------------
(* Properties of the payload builder *)

Built == call.fn = "build_new_page_payload" /\ call.done

\* the properties of the source record typed as one of the computed types
ReadOnlySourceKeys ==
    {k \in DOMAIN call.source_task.properties :
        call.source_task.properties[k].type \in
            {"formula", "rollup", "created_by", "created_time",
             "last_edited_by", "last_edited_time"}}

SetByBuilder(k) ==
    \/ /\ k = "Nombre"
       /\ call.result.properties[k] = [title |-> <<[text |-> [content |-> call.task_name]]>>]
    \/ /\ k = "Horario Planificado"
       /\ call.result.properties[k] = [date |-> call.planned_date]
    \/ /\ k = "Tarea"
       /\ "relation" \in DOMAIN call.result.properties[k]

\* C20: a field copied from the source record is in the target schema: every
\* payload property outside the schema is the name or the planned date the
\* builder sets itself, and every other property is a source field of the schema
C20_CopiedWithinSchema ==
    Built =>
        \A k \in DOMAIN call.result.properties :
            /\ k \notin call.registry_db_properties =>
                  k \in {"Nombre", "Horario Planificado"} /\ SetByBuilder(k)
            /\ ~SetByBuilder(k) =>
                  /\ k \in call.registry_db_properties
                  /\ k \in DOMAIN call.source_task.properties

\* a payload with a copied field, built from a record with a writable field
\* the target schema lacks
C20_Witness ==
    /\ Built
    /\ "Priority" \in DOMAIN call.result.properties
    /\ "Effort" \notin call.registry_db_properties
    /\ "Effort" \in DOMAIN call.source_task.properties
    /\ call.source_task.properties["Effort"].type = "number"
    /\ "Horario Planificado" \in DOMAIN call.source_task.properties
    /\ "Horario Planificado" \notin call.registry_db_properties

\* C21: the title of every built payload is exactly one text element holding
\* the task name passed to the builder, whatever title the copy brought over
C21_TitleIsTaskName ==
    Built =>
        /\ "Nombre" \in DOMAIN call.result.properties
        /\ call.result.properties["Nombre"] =
              [title |-> <<[text |-> [content |-> call.task_name]]>>]

\* a payload built from a record whose two-segment title the copy brought over
C21_Witness ==
    /\ Built
    /\ "Nombre" \in call.registry_db_properties
    /\ Len(call.source_task.properties["Nombre"].title) = 2
    /\ call.task_name = "A"

\* the same on the phases: every page created carries as its
\* title the name the phase read off its source record
C21_PagesCarryName ==
    \A i \in DOMAIN creates :
        /\ creates[i].payload.properties["Nombre"] =
              [title |-> <<[text |-> [content |-> creates[i].name]]>>]
        /\ \A k \in DOMAIN tasks_db :
              tasks_db[k].id = creates[i].source =>
                  creates[i].name = TaskName(tasks_db[k].properties)
        /\ \A k \in DOMAIN registry :
              registry[k].id = creates[i].source =>
                  creates[i].name = TaskName(registry[k].properties)

\* the back-relation of the source record when it is populated, else the
\* one-element list of the source record's id
ExpectedRelation ==
    LET props == call.source_task.properties
    IN  IF "Tarea" \in DOMAIN props /\ props["Tarea"].relation # <<>>
        THEN props["Tarea"].relation
        ELSE <<[id |-> call.source_task.id]>>

\* C22: with Tarea in the target schema the payload's Tarea relation is the
\* source's relation when that is non-empty and [{id: source.id}] otherwise;
\* with Tarea outside the target schema the payload has no Tarea property
C22_BackRelation ==
    Built =>
        IF "Tarea" \in call.registry_db_properties
        THEN /\ "Tarea" \in DOMAIN call.result.properties
             /\ call.result.properties["Tarea"] = [relation |-> ExpectedRelation]
        ELSE "Tarea" \notin DOMAIN call.result.properties

\* a payload that carries the populated back-relation of its source record
C22_Witness ==
    /\ Built
    /\ "Tarea" \in call.registry_db_properties
    /\ "Tarea" \in DOMAIN call.source_task.properties
    /\ call.source_task.properties["Tarea"].relation = <<[id |-> "t1"]>>
    /\ call.result.properties["Tarea"] = [relation |-> <<[id |-> "t1"]>>]

\* C23: no built payload has the property Horario, even when the source
\* record has a Horario date and Horario is in the target schema; so no
\* payload has both Horario and Horario Planificado
C23_NoHorario ==
    Built =>
        /\ "Horario" \notin DOMAIN call.result.properties
        /\ ~({"Horario", "Horario Planificado"} \subseteq DOMAIN call.result.properties)

\* a payload with a planned time, built from a record with a Horario date for
\* a target schema that holds Horario
C23_Witness ==
    /\ Built
    /\ "Horario" \in call.registry_db_properties
    /\ "Horario" \in DOMAIN call.source_task.properties
    /\ call.source_task.properties["Horario"] = Yesterday0
    /\ "Horario Planificado" \in DOMAIN call.result.properties

----------------------------------------------------------------------------
(* Properties of the phases *)

\* the occurrence time of a registry record: its Horario, else its Horario
\* Planificado
Occurrence(record) ==
    LET horario == record.properties["Horario"].date
    IN  IF horario # Null THEN horario
        ELSE record.properties["Horario Planificado"].date

\* the time of day of an instant in the planner's timezone, on the date today
ReAnchor(today, dt) ==
    LET m == (Instant(dt) + PlannerOffset) % 1440
    IN  [date |-> today, hasTime |-> TRUE, hh |-> m \div 60, mm |-> m % 60,
         ss |-> 0, aware |-> TRUE, off |-> PlannerOffset]

\* the carry-over loop stands at a named record with a start and an end whose
\* name today's cache does not hold
CarryOverDue(p) ==
    LET f == frame[p]
    IN  /\ f.pc = "loop" /\ f.fn = "duplicate" /\ f.items # <<>>
        /\ TaskName(Head(f.items).properties) \notin {None, ""}
        /\ Occurrence(Head(f.items)) # Null
        /\ Occurrence(Head(f.items)).end # Null
        /\ ~(/\ f.today \in DOMAIN planner[p].existing_tasks_names
              /\ TaskName(Head(f.items).properties) \in
                    planner[p].existing_tasks_names[f.today])

\* C24: for an unfinished registry record of yesterday with a start and an
\* end (named, its name not yet in today's cache) the carry-over phase issues
\* one create with the same title whose Horario Planificado has today's date
\* and the start and end times of day of the source instants in the planner's
\* timezone; the create stores exactly one page and the loop moves on
C24_CarryOverTime ==
    [][\A p \in Planners :
          LET f == frame[p]
              g == frame'[p]
          IN  /\ (CarryOverDue(p) /\ g # f) =>
                    LET record == Head(f.items)
                        name == TaskName(record.properties)
                    IN  /\ g.pc = "create" /\ g.source = record.id
                        /\ g.payload.properties["Nombre"] =
                              [title |-> <<[text |-> [content |-> name]]>>]
                        /\ g.payload.properties["Horario Planificado"] =
                              [date |->
                                 [start |-> ReAnchor(f.today, Occurrence(record).start),
                                  end |-> ReAnchor(f.today, Occurrence(record).end)]]
                        /\ f.today = clock
              /\ (f.pc = "create" /\ f.fn = "duplicate" /\ registry' # registry) =>
                    /\ Len(registry') = Len(registry) + 1
                    /\ \A k \in DOMAIN registry : registry'[k] = registry[k]
                    /\ LET page == registry'[Len(registry')].properties
                           date == f.payload.properties["Horario Planificado"].date
                       IN  /\ TaskName(page) = f.task_name
                           /\ page["Horario Planificado"].date.start = date.start
                           /\ page["Horario Planificado"].date.end = Get(date, "end", Null)
                    /\ g.pc = "loop" /\ g.items = Tail(f.items)]_vars

\* the page carried over from r1, 07:00 to 08:30 UTC yesterday: 09:00 to 10:30
\* today in the planner's timezone
C24_Witness ==
    \E i \in DOMAIN creates :
        /\ creates[i].fn = "duplicate" /\ creates[i].source = "r1"
        /\ creates[i].payload.properties["Horario Planificado"].date =
              [start |-> At(Today0, 9, 0, 0, PlannerOffset),
               end |-> At(Today0, 10, 30, 0, PlannerOffset)]
        /\ \E k \in DOMAIN registry :
              /\ registry[k].id \notin {"r1", "r2", "r3", "r4"}
              /\ TaskName(registry[k].properties) = "A"
              /\ registry[k].properties["Horario Planificado"].date.start =
                    At(Today0, 9, 0, 0, PlannerOffset)

\* the names of the options of a multi-select property of a record
OptionNames(record, key) ==
    {record.properties[key].multi_select[i].name :
        i \in DOMAIN record.properties[key].multi_select}

\* a template of the tasks database is due on a date: it is daily, or weekly
\* on the weekday of the date
TemplateDue(record, d) ==
    \/ "Diaria" \in OptionNames(record, "Periodicidad")
    \/ /\ "Semanal" \in OptionNames(record, "Periodicidad")
       /\ ToString(WeekdayOf(d)) \in OptionNames(record, "Día de la semana")

\* today's cache of planner p holds the name
Cached(p, today, name) ==
    /\ today \in DOMAIN planner[p].existing_tasks_names
    /\ name \in planner[p].existing_tasks_names[today]

\* C25: the periodic phase issues a create for a template of its query iff
\* the template has a name, the name is not in today's cache when the template
\* is processed, and the template is due today; a template that gets no create
\* leaves the cache as it was and the loop goes on
C25_PeriodicCreateIff ==
    [][\A p \in Planners :
          LET f == frame[p]
              g == frame'[p]
          IN  (f.pc = "loop" /\ f.fn = "periodic" /\ f.items # <<>> /\ g # f) =>
                 LET record == Head(f.items)
                     name == TaskName(record.properties)
                 IN  /\ g.pc = "create" <=>
                           /\ name \notin {None, ""}
                           /\ ~Cached(p, f.today, name)
                           /\ TemplateDue(record, f.today)
                     /\ (g.pc = "create" =>
                           (g.source = record.id /\ g.task_name = name))
                     /\ (g.pc # "create" => (g.pc = "loop" /\ g.items = Tail(f.items)))
                     /\ creates' = creates
                     /\ planner'[p].existing_tasks_names =
                           planner[p].existing_tasks_names]_vars

\* the periodic phase is through its records: the weekly template t2 got its
\* page, t3, not due on a Monday, got none and its name is not in the cache
C25_Witness ==
    \E p \in Planners :
        /\ frame[p].fn = "periodic" /\ frame[p].pc = "loop" /\ frame[p].items = <<>>
        /\ \E k \in DOMAIN tasks_db : tasks_db[k].id = "t3"
        /\ ~Cached(p, frame[p].today, "B")
        /\ \E i \in DOMAIN creates :
              creates[i].fn = "periodic" /\ creates[i].source = "t2"

\* what the alert query asks for: a kind other than Periódica, a status other
\* than Completada, an alert date on or before today
AlertMatch(record, today) ==
    /\ record.properties["Tipo"].select.name # "Periódica"
    /\ record.properties["Estado"].status.name # "Completada"
    /\ record.properties["Fecha de Alerta"].date # Null
    /\ ToOrdinal(record.properties["Fecha de Alerta"].date.start.date) <= ToOrdinal(today)

\* C26: the alerted phase loops over the records of the tasks database that
\* are not Periódica, not Completada and alerted on or before today, in the
\* order of the query; each one with a name that today's cache does not hold
\* gets one create, whatever its recurrence fields say, and the others none;
\* an empty result ends the phase without a create
C26_AlertedCreates ==
    [][\A p \in Planners :
          LET f == frame[p]
              g == frame'[p]
          IN  f.fn = "alerted" =>
                /\ (f.pc = "query" /\ g.pc = "loop") =>
                      /\ g.items = SelectSeq(tasks_db, LAMBDA r : AlertMatch(r, f.today))
                      /\ creates' = creates
                /\ (f.pc = "loop" /\ f.items = <<>>) => creates' = creates
                /\ (f.pc = "loop" /\ f.items # <<>> /\ g # f) =>
                      LET name == TaskName(Head(f.items).properties)
                      IN  /\ g.pc = "create" <=>
                                (name \notin {None, ""} /\ ~Cached(p, f.today, name))
                          /\ (g.pc = "create" =>
                                (g.source = Head(f.items).id /\ g.items = f.items))
                          /\ (g.pc # "create" => (g.pc = "loop" /\ g.items = Tail(f.items)))
                          /\ creates' = creates
                /\ (f.pc = "create" /\ creates' # creates) =>
                      /\ Len(creates') = Len(creates) + 1
                      /\ creates'[Len(creates')].source = Head(f.items).id
                      /\ g.pc = "loop" /\ g.items = Tail(f.items)]_vars

\* two alerted templates without a periodicity got their pages in query order
C26_Witness ==
    \E i, j \in DOMAIN creates :
        /\ i < j
        /\ creates[i].fn = "alerted" /\ creates[i].source = "a1"
        /\ creates[j].fn = "alerted" /\ creates[j].source = "a6"
        /\ \A k \in DOMAIN tasks_db :
              ~is_task_scheduled_for_today(tasks_db[k].properties, Today0)

\* C27: in every phase the step on a record without title text issues no
\* create, leaves the cache and the registry as they were, raises nothing and
\* leaves the loop at the next record
C27_NamelessSkipped ==
    [][\A p \in Planners :
          LET f == frame[p]
              g == frame'[p]
          IN  (/\ f.pc = "loop" /\ f.items # <<>> /\ g # f
               /\ TaskName(Head(f.items).properties) \in {None, ""}) =>
                 /\ g = [f EXCEPT !.items = Tail(f.items)]
                 /\ g.outcome # "raised"
                 /\ creates' = creates /\ registry' = registry
                 /\ planner' = planner]_vars

\* a run that returned: its carry-over phase met the nameless r4, its alerted
\* phase the nameless a2 and then a6, which got its page; nothing nameless
\* was created
C27_Witness ==
    /\ completed # {}
    /\ \E k \in DOMAIN registry : registry[k].id = "r4"
    /\ Len(tasks_db) = 2 /\ tasks_db[1].id = "a2" /\ tasks_db[2].id = "a6"
    /\ Len(creates) = 1 /\ creates[1].source = "a6" /\ creates[1].in_run

\* the clock strings of the templates that time.fromisoformat rejects
BadClocks == {<<"2", "5", ":", "0", "0">>, <<"9", "a", "m">>}

\* the clock string of a template under a key, <<>> when it has none
ClockOf(record, key) ==
    IF record.properties[key].rich_text = <<>> THEN <<>>
    ELSE record.properties[key].rich_text[1].plain_text

\* the template has a start or, after a start, an end that does not parse
HasBadClock(record) ==
    \/ ClockOf(record, "Hora Inicio") \in BadClocks
    \/ /\ ClockOf(record, "Hora Inicio") # <<>>
       /\ ClockOf(record, "Hora Fin") \in BadClocks

\* {start: today at 12:00 in the planner's timezone}
NoonStart(today) ==
    [start |-> [date |-> today, hasTime |-> TRUE, hh |-> 12, mm |-> 0, ss |-> 0,
                aware |-> TRUE, off |-> PlannerOffset]]

MidnightStart(today) ==
    [start |-> [date |-> today, hasTime |-> TRUE, hh |-> 0, mm |-> 0, ss |-> 0,
                aware |-> TRUE, off |-> PlannerOffset]]

\* C30: build_planned_datetime(today, None, None) is {start: today at 00:00
\* in the planner's timezone}, and an alerted template without Hora Inicio and
\* Hora Fin is created with that Horario Planificado
C30_NoClocksPlannedAtMidnight ==
    \A i \in DOMAIN creates :
        creates[i].fn = "alerted" =>
           \A k \in DOMAIN tasks_db :
              (/\ tasks_db[k].id = creates[i].source
               /\ ClockOf(tasks_db[k], "Hora Inicio") = <<>>
               /\ ClockOf(tasks_db[k], "Hora Fin") = <<>>) =>
                 /\ build_planned_datetime(creates[i].today, NoneChars, NoneChars) =
                       MidnightStart(creates[i].today)
                 /\ creates[i].payload.properties["Horario Planificado"] =
                       [date |-> MidnightStart(creates[i].today)]

\* the page of the alerted a1, which has no clock strings, is in the registry
C30_Witness ==
    \E i \in DOMAIN creates :
        /\ creates[i].fn = "alerted" /\ creates[i].source = "a1"
        /\ \E n \in DOMAIN registry :
              /\ TaskName(registry[n].properties) = "A"
              /\ registry[n].properties["Tarea"].relation = <<[id |-> "a1"]>>

----------------------------------------------------------------------------
(* Properties of the dedup cache *)

\* C31: on one calendar date, run_daily_plan asks the registry for today's
\* names once, as its first remote call: the seeding query is only ever
\* pending in run_daily_plan itself and before it has been answered, and a
\* phase of the run queries, loops and creates only after that one answer,
\* which came before any create of the run
C31_SeededOncePerRun ==
    \A p \in Planners :
        LET f == frame[p]
            h == hist[p]
        IN  /\ ((f.in_run /\ f.pc = "seed") => (f.fn = "run" /\ ~h.seeded))
            /\ ((f.in_run /\ f.pc \in {"query", "loop", "create"}) =>
                    /\ f.fn \in Range(PhaseOrder)
                    /\ h.seeded
                    /\ h.seed_at = h.base
                    /\ f.today \in DOMAIN planner[p].existing_tasks_names)

\* a run in its last phase, seeded once, with a page created by an earlier
\* phase, on a planner whose earlier run had left an entry for today
C31_Witness ==
    \E p \in Planners :
        /\ frame[p].in_run /\ frame[p].fn = "alerted" /\ frame[p].pc = "loop"
        /\ hist[p].seeded
        /\ hist[p].after_done
        /\ hist[p].base > hist[p].born

\* a registry record occurs on the date d of the planner's timezone: its
\* Horario or its Horario Planificado starts within that day
OccursOn(record, d) ==
    \E key \in {"Horario", "Horario Planificado"} :
        LET value == record.properties[key].date
        IN  /\ value # Null
            /\ Instant(value.start) >= Instant(At(d, 0, 0, 0, PlannerOffset))
            /\ Instant(value.start) < Instant(At(NextDay(d), 0, 0, 0, PlannerOffset))

\* the names of the records of the registry that occur on d
RegistryNamesOn(d) ==
    {TaskName(registry[i].properties) :
        i \in {j \in DOMAIN registry : OccursOn(registry[j], d)}} \ {None, ""}

AtRegistryName(p) ==
    LET f == frame[p]
    IN  /\ ~f.in_run /\ f.pc = "loop" /\ f.items # <<>>
        /\ TaskName(Head(f.items).properties) \in RegistryNamesOn(f.today)

\* the phase would create a page for the record if no cache were kept
Eligible(fn, record, today) ==
    CASE fn = "duplicate" -> Occurrence(record) # Null
      [] fn = "periodic" -> TemplateDue(record, today)
      [] fn = "alerted" -> TRUE

C34_CachedOnlyAfterCreate ==
    \A p \in Planners :
        \A d \in DOMAIN planner[p].existing_tasks_names :
            planner[p].existing_tasks_names[d] \subseteq RegistryNamesOn(d)

\* a run has raised out of a create call that failed for good, and today's
\* cache of its planner holds a name no record of today's registry carries
C34_Witness ==
    \E p \in Planners :
        /\ frame[p].in_run /\ frame[p].pc = "idle" /\ frame[p].outcome = "raised"
        /\ hist[p].seeded
        /\ Today0 \in DOMAIN planner[p].existing_tasks_names
        /\ planner[p].existing_tasks_names[Today0] \ RegistryNamesOn(Today0) # {}

----------------------------------------------------------------------------
(* Properties of the recurrence evaluator: the weeks of the month *)

\* a Mensual template with no days of the month whose only week is the last
\* one was evaluated due: the date passed the check of the last week
DueInLastWeek ==
    /\ EvaluatedFor(<<"Mensual">>)
    /\ call.rule.days_of_month = {}
    /\ call.rule.weeks_of_month = {"Última"}
    /\ call.result

\* what the evaluator returns on the date of the call for the same template
\* with the k-th week in place of the last one
DueInWeek(k) ==
    is_task_scheduled_for_today(
        PeriodicTask([call.rule EXCEPT !.weeks_of_month = {Semanas[k]}]), call.today)

\* C35 as stated: a date that passes the check of the last week passes the
\* check of none of the numbered weeks 1 to 4
C35_WeeksDisjoint ==
    DueInLastWeek => \A k \in 1..4 : ~DueInWeek(k)

\* C35: a date that passes the check of the last week is in week 4 or 5 of
\* the count from the first of the month, and it passes the check of a
\* numbered week as well exactly when that week is the 4th and the day is at
\* most the 28th; weeks 1 to 3 never overlap with the last week
C35_LastOverlapsFourthOnly ==
    DueInLastWeek =>
        /\ (call.today.day - 1) \div 7 + 1 \in {4, 5}
        /\ \A k \in 1..4 : DueInWeek(k) <=> (k = 4 /\ call.today.day <= 28)

\* Sunday 2025-10-26 is in the last seven days of October and in its 4th
\* week: due with the last week, and due with the 4th week
C35_Witness ==
    /\ DueInLastWeek
    /\ call.today = [year |-> 2025, month |-> 10, day |-> 26]
    /\ call.rule.days_of_week = {7}
    /\ DueInWeek(4)

----------------------------------------------------------------------------
(* Properties of the payload builder: the planned time *)

\* C36: with an occurrence time supplied, the Horario Planificado of the
\* payload is exactly that value, whatever Horario Planificado the source
\* record holds and whether or not the copy brought it over
C36_PlannedTimeReplacesCopy ==
    (Built /\ call.planned_date # <<>>) =>
        /\ "Horario Planificado" \in DOMAIN call.result.properties
        /\ call.result.properties["Horario Planificado"] = [date |-> call.planned_date]

\* the source holds a planned time of yesterday that the copy brings over,
\* the schema having the property; the payload is planned today at noon
C36_Witness ==
    /\ Built
    /\ "Horario Planificado" \in call.registry_db_properties
    /\ "Horario Planificado" \in DOMAIN call.source_task.properties
    /\ call.source_task.properties["Horario Planificado"] = Yesterday0
    /\ "Horario Planificado" \in
          DOMAIN copy_writable_properties(call.source_task.properties,
                                          call.registry_db_properties)
    /\ call.result.properties["Horario Planificado"].date.start =
          At(Today0, 12, 0, 0, PlannerOffset)

----------------------------------------------------------------------------
(* Properties of the carry-over phase: the source of the time of day *)

\* the carry-over loop stands at a named record whose name today's cache
\* does not hold
CarryOverAt(p) ==
    LET f == frame[p]
    IN  /\ f.pc = "loop" /\ f.fn = "duplicate" /\ f.items # <<>>
        /\ TaskName(Head(f.items).properties) \notin {None, ""}
        /\ ~Cached(p, f.today, TaskName(Head(f.items).properties))

\* C37: the carry-over phase takes the time of day it re-anchors to today
\* from Horario whenever Horario has a date, also when the record has a
\* Horario Planificado as well, and from Horario Planificado only when
\* Horario has none; a record with neither date is passed over, no create
\* issued (stated for dates that carry a time of day)
C37_HorarioFirst ==
    [][\A p \in Planners :
          LET f == frame[p]
              g == frame'[p]
          IN  /\ \A i \in DOMAIN creates' :
                    \A k \in DOMAIN registry :
                        (creates'[i].fn = "duplicate"
                            /\ registry[k].id = creates'[i].source) =>
                           Occurrence(registry[k]) # Null
              /\ (CarryOverAt(p) /\ g # f) =>
                 LET record == Head(f.items)
                     horario == record.properties["Horario"].date
                     planificado == record.properties["Horario Planificado"].date
                 IN  /\ ((horario # Null /\ horario.start.hasTime) =>
                            /\ g.pc = "create" /\ g.source = record.id
                            /\ g.payload.properties["Horario Planificado"].date.start =
                                  ReAnchor(f.today, horario.start))
                     /\ ((horario = Null /\ planificado # Null
                             /\ planificado.start.hasTime) =>
                            /\ g.pc = "create" /\ g.source = record.id
                            /\ g.payload.properties["Horario Planificado"].date.start =
                                  ReAnchor(f.today, planificado.start))
                     /\ ((horario = Null /\ planificado = Null) =>
                            /\ g.pc = "loop" /\ g.items = Tail(f.items)
                            /\ creates' = creates /\ registry' = registry
                            /\ planner' = planner)]_vars

\* the record c3, Horario the day before yesterday at 10:00 and Horario
\* Planificado yesterday at 16:00, carried over at 10:00; and the record c2,
\* no Horario and Horario Planificado yesterday at 15:00 UTC, carried over at
\* 17:00 of the planner's timezone
C37_Witness ==
    \E i, j \in DOMAIN creates :
        /\ creates[i].fn = "duplicate" /\ creates[i].source = "c3"
        /\ creates[i].payload.properties["Horario Planificado"].date.start =
              At(Today0, 10, 0, 0, PlannerOffset)
        /\ creates[j].fn = "duplicate" /\ creates[j].source = "c2"
        /\ creates[j].payload.properties["Horario Planificado"].date.start =
              At(Today0, 17, 0, 0, PlannerOffset)

\* the registry record a create of the carry-over phase was built from has an
\* occurrence with a date and no time of day
FromDateOnly(c) ==
    /\ c.fn = "duplicate"
    /\ \E k \in DOMAIN registry :
          /\ registry[k].id = c.source
          /\ Occurrence(registry[k]) # Null
          /\ ~Occurrence(registry[k]).start.hasTime

\* C38: a page carried over from a record whose occurrence is a date with
\* no time of day is planned today at 12:00 of the planner's timezone
C38_DateOnlyPlannedAtNoon ==
    \A i \in DOMAIN creates :
        FromDateOnly(creates[i]) =>
            creates[i].payload.properties["Horario Planificado"].date =
                Noon(creates[i].today)

\* the record c4, Horario 2025-10-05 with no time, carried over with a
\* planned start of today 00:00
C38_Witness ==
    \E i \in DOMAIN creates :
        /\ FromDateOnly(creates[i]) /\ creates[i].source = "c4"
        /\ creates[i].payload.properties["Horario Planificado"].date =
              [start |-> At(Today0, 0, 0, 0, PlannerOffset)]

----------------------------------------------------------------------------
(* Properties of a run across midnight *)

\* C39: the phases of a run work on the date the run read when it seeded
\* the cache: no phase of the run asks the registry for a day's names again,
\* every phase consults the entry of that date, and every page of the run is
\* planned on it
C39_OneDatePerRun ==
    \A p \in Planners :
        LET f == frame[p]
        IN  (f.in_run /\ f.pc # "idle") =>
               /\ f.today = f.run_today
               /\ (f.pc = "seed" => f.fn = "run")
               /\ \A i \in CreatesSince(p, hist[p].base) :
                      /\ creates[i].today = f.run_today
                      /\ creates[i].payload.properties["Horario Planificado"]
                            .date.start.date = f.run_today

\* a run that seeded the entry of 2025-10-06 is in a later phase on
\* 2025-10-07, has seeded an entry for that date too, and has created a page
\* planned on 2025-10-07
C39_Witness ==
    \E p \in Planners :
        /\ frame[p].in_run /\ frame[p].pc = "loop"
        /\ frame[p].run_today = Today0
        /\ frame[p].today = NextDay(Today0)
        /\ hist[p].seeded
        /\ DOMAIN planner[p].existing_tasks_names = {Today0, NextDay(Today0)}
        /\ \E i \in CreatesSince(p, hist[p].base) :
              creates[i].payload.properties["Horario Planificado"].date.start.date =
                  NextDay(Today0)

----------------------------------------------------------------------------
(* What a phase writes *)

\* C40: the tasks database is never written, and the registry changes only
\* by a create call whose payload names the registry as its parent: one page
\* with a new id is added behind the records there are, and every record
\* there was stays as it was
C40_OnlyCreatesInRegistry ==
    [][/\ tasks_db' = tasks_db
       /\ \/ registry' = registry
          \/ \E p \in Planners :
                /\ frame[p].pc = "create"
                /\ frame[p].payload.parent = [database_id |-> "registry"]
                /\ Len(registry') = Len(registry) + 1
                /\ \A k \in DOMAIN registry : registry'[k] = registry[k]
                /\ registry'[Len(registry')].id \notin
                      {registry[k].id : k \in DOMAIN registry}]_vars

\* the carry-over phase, called on its own, has returned after creating a
\* page from the record r2: r2 is in the registry as it was, the new page
\* behind it
C40_Witness ==
    \E p \in Planners :
        /\ ~frame[p].in_run /\ frame[p].pc = "idle" /\ frame[p].outcome = "returned"
        /\ \E i \in DOMAIN creates :
              /\ creates[i].fn = "duplicate" /\ creates[i].source = "r2"
        /\ \E k \in DOMAIN registry :
              /\ registry[k] = RegistryUniverse[2]
              /\ k < Len(registry)
              /\ TaskName(registry[Len(registry)].properties) = "B"

====
